---- MODULE Spec2Model ----
(***************************************************************************)
(* Model of the Redis-backed task queue (app/queue/manager.py), the worker *)
(* pool that consumes it (app/queue/worker.py) and the API callers that    *)
(* enqueue and cancel tasks (app/api/workflow.py).                         *)
(*                                                                         *)
(* Granularity: one step per Redis command on the list or on the task      *)
(* record.  Every command is preceded by an await (the ping of             *)
(* _ensure_connected), so other coroutines and other processes may run     *)
(* between any two commands of one operation.  The two SETEX of            *)
(* update_task / enqueue_task (task:<id> and task_status:<id>) are one     *)
(* step: no modelled operation reads task_status:<id>.                     *)
(* created_at / updated_at are not modelled: nothing branches on them.     *)
(***************************************************************************)
EXTENDS Integers, Sequences, FiniteSets, TLC

\* ---------------------------------------------------------------- bounds
MaxTasks == 2      \* task ids that API callers may create
MaxRetries == 1    \* largest max_retries a created task carries
MaxTime == 2       \* last reading of the wall clock
MaxCallers == 1    \* concurrent callers of cancel_task
MaxThreads == 2    \* threads that call one cache instance
MaxKeys == 3       \* distinct cache keys
MaxValue == 2      \* distinct cached values
MaxSize == 2       \* largest max_size a cache is constructed with
DefaultTtl == 2    \* default_ttl of the TTL caches, in clock readings
MaxTtl == 1        \* largest ttl passed to set
\* the last reading of time.time() of a cache with expiry
MaxCacheTime == 3
MaxResponses == 2  \* response ids in use
MaxBuffers == 2    \* buffer objects created by direct create_buffer calls
MaxChunks == 2     \* chunks a stream yields before it ends or fails
LlmMaxRetries == 2 \* largest max_retries of the response handler

\* ------------------------------------------------------------- constants
None == 0          \* Optional[datetime] = None / no id

TaskIds == 1..MaxTasks
Callers == 1..MaxCallers

\* app/utils/cache.py: the threads, keys and values of the cache's callers
Threads == 1..MaxThreads
NoThread == 0
Keys == 1..MaxKeys
Values == 1..MaxValue

\* app/utils/llm_response.py: response ids, chunks and exceptions
ResponseIds == 1..MaxResponses
NoBuffer == 0

\* the seconds the endpoint keeps a buffer after the response
RetentionDelay == 5
Chunks == {"a", "b"}

\* app/models/task.py: the Enum members and their JSON values
\* (KNOWLEDGE_SEARCH is left out: its handler always raises, as that of
\* CHAT_PROCESS does, and its list is a third copy of the same queue)
TaskType == {"WORKFLOW_EXECUTE", "CHAT_PROCESS"}
TaskStatus == {"PENDING", "QUEUED", "RUNNING", "COMPLETED", "FAILED", "CANCELLED"}

TaskTypeValue(ty) ==
    CASE ty = "WORKFLOW_EXECUTE" -> "workflow_execute"
      [] ty = "CHAT_PROCESS" -> "chat_process"

TaskStatusValue(st) ==
    CASE st = "PENDING" -> "pending"
      [] st = "QUEUED" -> "queued"
      [] st = "RUNNING" -> "running"
      [] st = "COMPLETED" -> "completed"
      [] st = "FAILED" -> "failed"
      [] st = "CANCELLED" -> "cancelled"

\* Task(id=..., type=..., status=..., max_retries=...): the other fields
\* take their defaults (no result, no error, no timestamps, retry_count 0)
Task(id, ty, st, mr) ==
    [id |-> id, type |-> ty, status |-> st,
     params |-> <<"workflow_id", id>>, metadata |-> <<"trace_id", id>>,
     result |-> FALSE, error |-> FALSE,
     started_at |-> None, completed_at |-> None,
     retry_count |-> 0, max_retries |-> mr]

\* task.model_dump_json(): enums are written as their values
model_dump_json(task) ==
    [task EXCEPT !.type = TaskTypeValue(@), !.status = TaskStatusValue(@)]

\* Task(**json.loads(data)): enum values are parsed back to members
Task_from_json(data) ==
    [data EXCEPT
       !.type = CHOOSE ty \in TaskType : TaskTypeValue(ty) = @,
       !.status = CHOOSE st \in TaskStatus : TaskStatusValue(st) = @]

\* ------------------------------------------------------------- variables
VARIABLES
    redis_task,     \* task:<id>          -> <<>> or <<json record>>
    redis_status,   \* task_status:<id>   -> <<>> or <<status value>>
    redis_list,     \* task_queue:<kind>  -> list of ids, head first
    now,            \* datetime.now()
    running,        \* TaskWorker.running
    loopPc,         \* position of the consumer loop of each kind
    loopId,         \* task_id popped by the loop
    loopTask,       \* the loop's local Task object, <<>> or <<task>>
    loopError,      \* the handler of the loop raised
    loopCancelled,  \* history: the stored status was CANCELLED when the
                    \*   loop popped the id
    apiPc,          \* position of the API call that enqueues task id
    apiTask,        \* the Task object of that API call
    cancelPc,       \* position of each cancel_task call
    cancelTask,     \* the Task object cancel_task read
    handlerCalls,   \* history: handler invocations per task id
    handlerOk,      \* history: a handler invocation of the task returned
    cancelHist,     \* history: returns of cancel_task for the task id:
                    \*   "none", then "true", then "true_false"
    pushLog,        \* history: per list, the ids in the order of their LPUSH
    popLog,         \* history: per list, the ids in the order of their BRPOP
    \* app/utils/cache.py: one cache instance and the threads that call it
    cacheKind,      \* the class of the instance: "LRU", "TTL" or "LRUTTL"
    max_size,       \* self.max_size
    _cache,         \* self._cache: the entries in dict order, oldest first
    _lock,          \* self._lock: NoThread or the thread that holds it
    thPc,           \* position of each thread in its call
    thRet,          \* what the call of each thread returns: <<method, value>>
    linCache,       \* history: the contents after the calls so far, each
                    \*   applied whole in the order the bodies started
    linRet,         \* history: what the call returns when applied whole
    uses,           \* history: the held keys in the order of their most
                    \*   recent set or get-hit, oldest first
    evicted,        \* history: a set has evicted an entry
    evictedFresh,   \* history: a set has evicted an unexpired entry while an expired one stayed
    \* app/utils/llm_response.py: the response handler and its buffers
    heap,           \* the StreamResponseBuffer objects created so far
    _buffers,       \* self._buffers: response id -> NoBuffer or an object
    llm_max_retries,\* self.max_retries of the handler
    rwPc,           \* position of the process_with_retry call
    rwRid,          \* its response_id
    rwAttempt,      \* its loop variable attempt
    rwBuf,          \* the local buffer of its process_stream call
    rwOut,          \* how the call ended: <<>>, <<"return", object>> or
                    \*   <<"raise", exception>>
    keptObj,        \* history: the buffer that held chunks when an attempt
                    \*   of the call failed
    \* app/api/chat.py: one request to the streaming chat endpoint
    chPc,           \* position of the request
    chRid,          \* its response_id
    chBuf,          \* the local buffer of process_message_stream
    chEvents,       \* the events the endpoint has yielded
    chSlept,        \* seconds of the asyncio.sleep in the finally clause
    chOutcome,      \* history: how the stream ended: "none", "success",
                    \*   "stream_error", "exception" or "cancelled"
    \* app/queue/worker.py: the start() and stop() calls, step by step
    workers,        \* self.workers: the kinds that have an entry, in dict order
    _connected,     \* QueueManager._connected
    lifePc,         \* position of the stop() call in progress, or "idle"
    stopIdx,        \* position of stop's for loop in self.workers
    lifeLast,        \* history: how the last start() or stop() call ended
    \* app/agents/chat_agent.py: the ChatAgent and the calls of chat made so far
    _conversations, \* self._conversations: conversation id -> its messages
    chatCalls,      \* history: per call its arguments and how it ended
    \* app/agents/workflow_agent.py: the runs the WorkflowAgent tracks
    _active_tasks,  \* self._active_tasks: task_id -> the asyncio task (its run)
    _task_metadata, \* self._task_metadata: task_id -> workflow_id
    runs,           \* the asyncio tasks created so far: task_id, state and outcome
    timestamp,      \* datetime.now().timestamp()
    \* app/workflows/engine.py: the workflows registered with the engine
    _workflows,     \* the registered workflows: workflow id -> workflow
    registered,     \* history: the register_workflow calls made so far
    lastWorkflow,   \* history: <<>> or the workflow of the last call
    lastResult,     \* history: how the last call ended
    \* app/workflows/engine.py: the execution of one registered workflow
    nodeStatus,     \* node.status of every node of the executed workflow
    wfStatus,       \* workflow.status
    current_node_id,\* workflow.current_node_id, 0 before the first execution
    enginePc,       \* position of execute_workflow
    itemsLeft,      \* the elements of loop_items still to be bound
    executions,     \* history: the execute_workflow calls made so far
    entered,        \* history: per node, how often its status became RUNNING
    \* app/queue/worker.py, app/utils/logger.py: the trace id in the consumer loops
    trace_id_var,   \* the ContextVar trace_id_var in the context of each consumer loop ("" is None)
    traceQueue,     \* per kind, the queued tasks with the trace id of their metadata
    tracePc,        \* position of each consumer loop: "idle" or "handler"
    traceTask,      \* the task each consumer loop is handling
    traceHandled,   \* history: the trace ids of the tasks whose handler ended in each loop
    requests        \* number of execute_workflow requests made

vars == <<redis_task, redis_status, redis_list, now, running,
          loopPc, loopId, loopTask, loopError, loopCancelled, apiPc, apiTask,
          cancelPc, cancelTask,
          handlerCalls, handlerOk, cancelHist, pushLog, popLog,
          cacheKind, max_size, _cache, _lock, thPc, thRet, linCache, linRet, uses,
          evicted, evictedFresh,
          heap, _buffers, llm_max_retries, rwPc, rwRid, rwAttempt, rwBuf, rwOut,
          keptObj, chPc, chRid, chBuf, chEvents, chSlept, chOutcome,
          workers, _connected, lifePc, stopIdx, lifeLast,
          _conversations, chatCalls,
          _active_tasks, _task_metadata, runs, timestamp,
          _workflows, registered, lastWorkflow, lastResult,
          nodeStatus, wfStatus, current_node_id, enginePc, itemsLeft, executions, entered,
          trace_id_var, traceQueue, tracePc, traceTask, traceHandled, requests>>

loopVars == <<loopPc, loopId, loopTask, loopError, loopCancelled>>
apiVars == <<apiPc, apiTask>>
cancelVars == <<cancelPc, cancelTask>>
histVars == <<handlerCalls, handlerOk, cancelHist, pushLog, popLog>>
queueVars == <<redis_task, redis_status, redis_list, running, loopVars,
               apiVars, cancelVars, histVars>>
cacheVars == <<cacheKind, max_size, _cache, _lock, thPc, thRet, linCache, linRet,
               uses, evicted, evictedFresh>>
bufVars == <<heap, _buffers>>
retryVars == <<llm_max_retries, rwPc, rwRid, rwAttempt, rwBuf, rwOut, keptObj>>
chatVars == <<chPc, chRid, chBuf, chEvents, chSlept, chOutcome>>
lifeVars == <<workers, _connected, lifePc, stopIdx, lifeLast>>
convVars == <<_conversations, chatCalls>>
trackVars == <<_active_tasks, _task_metadata, runs, timestamp>>
regVars == <<_workflows, registered, lastWorkflow, lastResult>>
engineVars == <<nodeStatus, wfStatus, current_node_id, enginePc, itemsLeft, executions, entered>>
traceVars == <<trace_id_var, traceQueue, tracePc, traceTask, traceHandled, requests>>
agentVars == <<convVars, trackVars, regVars, engineVars, traceVars>>
appVars == <<lifeVars, agentVars>>
baseVars == <<queueVars, now, cacheVars, bufVars, retryVars, chatVars, lifeVars>>
except_convVars == <<baseVars, trackVars, regVars, engineVars, traceVars>>
except_trackVars == <<baseVars, convVars, regVars, engineVars, traceVars>>
except_regVars == <<baseVars, convVars, trackVars, engineVars, traceVars>>
except_engineVars == <<baseVars, convVars, trackVars, regVars, traceVars>>
except_traceVars == <<baseVars, convVars, trackVars, regVars, engineVars>>
extVars == <<cacheVars, bufVars, retryVars, chatVars, appVars>>

\* ---------------------------------------------------------------- helpers
_get_queue_name(ty) == TaskTypeValue(ty)

QueueNames == {_get_queue_name(ty) : ty \in TaskType}

InList(id) == \E q \in QueueNames : \E i \in 1..Len(redis_list[q]) : redis_list[q][i] = id

\* QueueManager.get_task: None (<<>>) or the parsed task
get_task(id) ==
    IF redis_task[id] = <<>> THEN <<>> ELSE <<Task_from_json(redis_task[id][1])>>

StoredStatus(id) ==
    IF redis_task[id] = <<>> THEN "NONE" ELSE get_task(id)[1].status

\* an enqueue_task that pushes the id without storing the record
setex_task_skipped(task) == UNCHANGED <<redis_task, redis_status>>

\* the two SETEX of update_task and of enqueue_task
setex_task(task) ==
    /\ redis_task' = [redis_task EXCEPT ![task.id] = <<model_dump_json(task)>>]
    /\ redis_status' = [redis_status EXCEPT ![task.id] = <<TaskStatusValue(task.status)>>]

\* RPUSH, the other end: the id is appended at the tail, where BRPOP pops
lpush_at_tail(q, id) == redis_list' = [redis_list EXCEPT ![q] = Append(@, id)]

\* redis LPUSH: insert at the head of the list
lpush(q, id) == redis_list' = [redis_list EXCEPT ![q] = <<id>> \o @]

\* redis (B)RPOP: remove from the tail of the list
rpop_value(q) == redis_list[q][Len(redis_list[q])]

\* a read of the tail that leaves the id in the list (LINDEX -1)
rpop_keep(q) == redis_list' = redis_list

\* redis (B)RPOP: the list without its tail
rpop(q) == redis_list' = [redis_list EXCEPT ![q] = SubSeq(@, 1, Len(@) - 1)]

\* an enqueue that stores the status it was given
mark_queued_skipped(task) == task

\* enqueue_task: task.status = TaskStatus.QUEUED
mark_queued(task) == [task EXCEPT !.status = "QUEUED"]

\* a wider test: a RUNNING task may be cancelled too
cancellable_or_running(task) == task.status \in {"PENDING", "QUEUED", "RUNNING"}

\* cancel_task: only a PENDING or QUEUED task is cancelled
cancellable(task) == task.status \in {"PENDING", "QUEUED"}

\* QueueManager / TaskWorker after construction, no request made yet
queue_init ==
    /\ redis_task = [id \in TaskIds |-> <<>>]
    /\ redis_status = [id \in TaskIds |-> <<>>]
    /\ redis_list = [q \in QueueNames |-> <<>>]
    /\ running = FALSE
    /\ loopPc = [ty \in TaskType |-> "dead"]
    /\ loopId = [ty \in TaskType |-> None]
    /\ loopTask = [ty \in TaskType |-> <<>>]
    /\ loopError = [ty \in TaskType |-> FALSE]
    /\ loopCancelled = [ty \in TaskType |-> FALSE]
    /\ apiPc = [id \in TaskIds |-> "new"]
    /\ apiTask = [id \in TaskIds |-> <<>>]
    /\ cancelPc = [c \in Callers |-> "idle"]
    /\ cancelTask = [c \in Callers |-> <<>>]
    /\ handlerCalls = [id \in TaskIds |-> 0]
    /\ handlerOk = [id \in TaskIds |-> FALSE]
    /\ cancelHist = [id \in TaskIds |-> "none"]
    /\ pushLog = [q \in QueueNames |-> <<>>]
    /\ popLog = [q \in QueueNames |-> <<>>]

\* LRUCache / TTLCache / LRUTTLCache __init__: an empty dict and a free lock
cache_init(kind, n) ==
    /\ cacheKind = kind
    /\ max_size = n
    /\ _cache = <<>>
    /\ _lock = NoThread
    /\ thPc = [t \in Threads |-> "idle"]
    /\ thRet = [t \in Threads |-> <<>>]
    /\ linCache = <<>>
    /\ linRet = [t \in Threads |-> <<>>]
    /\ uses = <<>>
    /\ evicted = FALSE
    /\ evictedFresh = FALSE

\* the parts of the application that a specification leaves out stay as
\* constructed
\* LLMResponseHandler.__init__: no buffer registered
buffers_init ==
    /\ heap = <<>>
    /\ _buffers = [rid \in ResponseIds |-> NoBuffer]

\* no process_with_retry call made yet on a handler with max_retries = n
retry_init(n) ==
    /\ llm_max_retries = n
    /\ rwPc = "idle"
    /\ rwRid = NoBuffer
    /\ rwAttempt = 0
    /\ rwBuf = NoBuffer
    /\ rwOut = <<>>
    /\ keptObj = NoBuffer

\* no request to the streaming endpoint yet
chat_init ==
    /\ chPc = "idle"
    /\ chRid = NoBuffer
    /\ chBuf = NoBuffer
    /\ chEvents = <<>>
    /\ chSlept = 0
    /\ chOutcome = "none"

\* TaskWorker.__init__ / QueueManager.__init__: no loop, not connected
life_init ==
    /\ workers = <<>>
    /\ _connected = FALSE
    /\ lifePc = "idle"
    /\ stopIdx = 0
    /\ lifeLast = "none"

\* ChatAgent.__init__: both caches are empty
conv_init ==
    /\ _conversations = <<>>
    /\ chatCalls = <<>>

\* WorkflowAgent.__init__: both maps are empty
track_init ==
    /\ _active_tasks = <<>>
    /\ _task_metadata = <<>>
    /\ runs = <<>>
    /\ timestamp = 1

\* WorkflowEngine.__init__: no workflow is registered
registry_init ==
    /\ _workflows = <<>>
    /\ registered = 0
    /\ lastWorkflow = <<>>
    /\ lastResult = "none"

\* a registered workflow: every node and the workflow are PENDING (the defaults of models/workflow.py)
engine_init ==
    /\ nodeStatus = [n \in 1..4 |-> "PENDING"]
    /\ wfStatus = "PENDING"
    /\ current_node_id = 0
    /\ enginePc = "idle"
    /\ itemsLeft = 0
    /\ executions = 0
    /\ entered = [n \in 1..4 |-> 0]

\* the consumer loops are created at startup, outside any request: no trace id
trace_init ==
    /\ trace_id_var = [ty \in TaskType |-> ""]
    /\ traceQueue = [ty \in TaskType |-> <<>>]
    /\ tracePc = [ty \in TaskType |-> "idle"]
    /\ traceTask = [ty \in TaskType |-> <<>>]
    /\ traceHandled = [ty \in TaskType |-> <<>>]
    /\ requests = 0

agent_init == conv_init /\ track_init /\ registry_init /\ engine_init /\ trace_init

app_init == life_init /\ agent_init

ext_init ==
    /\ cache_init("none", 0) /\ buffers_init /\ retry_init(0) /\ chat_init
    /\ app_init

Init ==
    /\ queue_init
    /\ now = 1
    /\ ext_init

\* the wall clock advances
Tick ==
    /\ now < MaxTime
    /\ now' = now + 1
    /\ UNCHANGED <<redis_task, redis_status, redis_list, running, loopVars,
                   apiVars, cancelVars, histVars>>
    /\ UNCHANGED extVars

\* ------------------------------------------------ API: execute_workflow
\* app/api/workflow.py builds a Task and awaits enqueue_task.  enqueue_task
\* sets status QUEUED on the caller's object and writes the record ...
api_enqueue_setex(id) ==
    /\ apiPc[id] = "new"
    /\ \A j \in TaskIds : j < id => apiPc[j] # "new"
    /\ \E ty \in TaskType, st \in TaskStatus :
         LET task == mark_queued(Task(id, ty, st, MaxRetries))
         IN /\ setex_task(task)
            /\ apiTask' = [apiTask EXCEPT ![id] = <<task>>]
    /\ apiPc' = [apiPc EXCEPT ![id] = "lpush"]
    /\ UNCHANGED <<redis_list, now, running, loopVars, cancelVars, histVars>>
    /\ UNCHANGED extVars

\* ... and then pushes the id onto the list of the task's kind
api_enqueue_lpush(id) ==
    /\ apiPc[id] = "lpush"
    /\ LET q == _get_queue_name(apiTask[id][1].type)
       IN /\ lpush(q, id)
          /\ pushLog' = [pushLog EXCEPT ![q] = Append(@, id)]
    /\ apiPc' = [apiPc EXCEPT ![id] = "done"]
    /\ UNCHANGED <<redis_task, redis_status, now, running, loopVars, apiTask,
                   cancelVars, handlerCalls, handlerOk, cancelHist, popLog>>
    /\ UNCHANGED extVars

\* ------------------------------------------------ QueueManager.cancel_task
\* get_task, the status test and the edit of the local object
cancel_task_get(c, id) ==
    /\ cancelPc[c] = "idle"
    /\ LET got == get_task(id)
       IN IF got = <<>> \/ ~cancellable(got[1])
          THEN /\ cancelHist' = [cancelHist EXCEPT ![id] =
                     IF @ = "none" THEN "none" ELSE "true_false"]
               /\ UNCHANGED <<cancelPc, cancelTask>>
          ELSE /\ cancelTask' = [cancelTask EXCEPT ![c] =
                     <<[got[1] EXCEPT !.status = "CANCELLED", !.completed_at = now]>>]
               /\ cancelPc' = [cancelPc EXCEPT ![c] = "update"]
               /\ UNCHANGED cancelHist
    /\ UNCHANGED <<redis_task, redis_status, redis_list, now, running, loopVars,
                   apiVars, handlerCalls, handlerOk, pushLog, popLog>>
    /\ UNCHANGED extVars

\* update_task(task) and return True
cancel_task_update(c) ==
    /\ cancelPc[c] = "update"
    /\ setex_task(cancelTask[c][1])
    /\ cancelHist' = [cancelHist EXCEPT ![cancelTask[c][1].id] =
          IF @ = "none" THEN "true" ELSE @]
    /\ cancelPc' = [cancelPc EXCEPT ![c] = "idle"]
    /\ cancelTask' = [cancelTask EXCEPT ![c] = <<>>]
    /\ UNCHANGED <<redis_list, now, running, loopVars, apiVars,
                   handlerCalls, handlerOk, pushLog, popLog>>
    /\ UNCHANGED extVars

\* ------------------------------------------------ TaskWorker.start / stop
\* start: one consumer loop per task kind with a handler
start ==
    /\ ~running
    /\ running' = TRUE
    /\ loopPc' = [ty \in TaskType |-> "brpop"]
    /\ UNCHANGED <<redis_task, redis_status, redis_list, now, loopId, loopTask,
                   loopError, loopCancelled, apiVars, cancelVars, histVars>>
    /\ UNCHANGED extVars

\* stop: every loop is cancelled at the await it is suspended in; the
\* CancelledError is not an Exception, so _process_task lets it through and
\* the loop breaks, dropping its local task
stop ==
    /\ running
    /\ running' = FALSE
    /\ loopPc' = [ty \in TaskType |-> "dead"]
    /\ loopId' = [ty \in TaskType |-> None]
    /\ loopTask' = [ty \in TaskType |-> <<>>]
    /\ loopError' = [ty \in TaskType |-> FALSE]
    /\ loopCancelled' = [ty \in TaskType |-> FALSE]
    /\ UNCHANGED <<redis_task, redis_status, redis_list, now, apiVars,
                   cancelVars, histVars>>
    /\ UNCHANGED extVars

\* ------------------------------------------------ TaskWorker._worker_loop
\* dequeue_task: BRPOP returned an id (a timeout changes nothing)
dequeue_task_brpop(ty) ==
    /\ running
    /\ loopPc[ty] = "brpop"
    /\ LET q == _get_queue_name(ty)
       IN /\ redis_list[q] # <<>>
          /\ rpop(q)
          /\ loopId' = [loopId EXCEPT ![ty] = rpop_value(q)]
          /\ loopCancelled' = [loopCancelled EXCEPT ![ty] =
                                StoredStatus(rpop_value(q)) = "CANCELLED"]
          /\ popLog' = [popLog EXCEPT ![q] = Append(@, rpop_value(q))]
    /\ loopPc' = [loopPc EXCEPT ![ty] = "get"]
    /\ UNCHANGED <<redis_task, redis_status, now, running, loopTask, loopError,
                   apiVars, cancelVars, handlerCalls, handlerOk, cancelHist, pushLog>>
    /\ UNCHANGED extVars

\* dequeue_task: GET task:<id>, parse, and edit the local object
dequeue_task_get(ty) ==
    /\ loopPc[ty] = "get"
    /\ LET got == get_task(loopId[ty])
       IN IF got = <<>>
          THEN /\ loopPc' = [loopPc EXCEPT ![ty] = "brpop"]
               /\ loopId' = [loopId EXCEPT ![ty] = None]
               /\ UNCHANGED loopTask
          ELSE /\ loopTask' = [loopTask EXCEPT ![ty] =
                     <<[got[1] EXCEPT !.status = "RUNNING", !.started_at = now]>>]
               /\ loopPc' = [loopPc EXCEPT ![ty] = "update"]
               /\ UNCHANGED loopId
    /\ UNCHANGED <<redis_task, redis_status, redis_list, now, running, loopError, loopCancelled,
                   apiVars, cancelVars, histVars>>
    /\ UNCHANGED extVars

\* dequeue_task: update_task(task) and return; back in _worker_loop the
\* task is skipped when its status is CANCELLED, else the handler is invoked
dequeue_task_update(ty) ==
    /\ loopPc[ty] = "update"
    /\ setex_task(loopTask[ty][1])
    /\ IF loopTask[ty][1].status = "CANCELLED"
       THEN /\ loopPc' = [loopPc EXCEPT ![ty] = "brpop"]
            /\ loopId' = [loopId EXCEPT ![ty] = None]
            /\ loopTask' = [loopTask EXCEPT ![ty] = <<>>]
            /\ UNCHANGED handlerCalls
       ELSE /\ loopPc' = [loopPc EXCEPT ![ty] = "handler"]
            /\ handlerCalls' = [handlerCalls EXCEPT ![loopId[ty]] = @ + 1]
            /\ UNCHANGED <<loopId, loopTask>>
    /\ UNCHANGED <<redis_list, now, running, loopError, loopCancelled, apiVars, cancelVars,
                   handlerOk, cancelHist, pushLog, popLog>>
    /\ UNCHANGED extVars

\* the outcomes of the handler of a kind: _handle_workflow_task returns or
\* raises, _handle_chat_task always raises NotImplementedError
HandlerReturns(ty) == IF ty = "WORKFLOW_EXECUTE" THEN {TRUE, FALSE} ELSE {FALSE}

\* _process_task: the handler returned ...
handler_return(ty) ==
    /\ loopPc[ty] = "handler"
    /\ TRUE \in HandlerReturns(ty)
    /\ loopError' = [loopError EXCEPT ![ty] = FALSE]
    /\ handlerOk' = [handlerOk EXCEPT ![loopId[ty]] = TRUE]
    /\ loopPc' = [loopPc EXCEPT ![ty] = "complete_get"]
    /\ UNCHANGED <<redis_task, redis_status, redis_list, now, running, loopId,
                   loopTask, loopCancelled, apiVars, cancelVars, handlerCalls,
                   cancelHist, pushLog, popLog>>
    /\ UNCHANGED extVars

\* an off-by-one retry test: one retry too many
should_retry_inclusive(task) == task.retry_count <= task.max_retries

\* the retry test of _process_task
should_retry(task) == task.retry_count < task.max_retries

\* ... or raised: retry while retry_count < max_retries, else fail the task
handler_raise(ty) ==
    /\ loopPc[ty] = "handler"
    /\ FALSE \in HandlerReturns(ty)
    /\ IF should_retry(loopTask[ty][1])
       THEN /\ loopTask' = [loopTask EXCEPT ![ty] =
                  <<[@[1] EXCEPT !.retry_count = @ + 1, !.status = "QUEUED",
                                 !.error = FALSE]>>]
            /\ loopPc' = [loopPc EXCEPT ![ty] = "retry_update"]
            /\ UNCHANGED loopError
       ELSE /\ loopError' = [loopError EXCEPT ![ty] = TRUE]
            /\ loopPc' = [loopPc EXCEPT ![ty] = "complete_get"]
            /\ UNCHANGED loopTask
    /\ UNCHANGED <<redis_task, redis_status, redis_list, now, running, loopId,
                   loopCancelled, apiVars, cancelVars, histVars>>
    /\ UNCHANGED extVars

\* retry: update_task(task)
retry_update(ty) ==
    /\ loopPc[ty] = "retry_update"
    /\ setex_task(loopTask[ty][1])
    /\ loopPc' = [loopPc EXCEPT ![ty] = "retry_setex"]
    /\ UNCHANGED <<redis_list, now, running, loopId, loopTask, loopError, loopCancelled,
                   apiVars, cancelVars, histVars>>
    /\ UNCHANGED extVars

\* retry: enqueue_task(task), the record ...
retry_enqueue_setex(ty) ==
    /\ loopPc[ty] = "retry_setex"
    /\ LET task == mark_queued(loopTask[ty][1])
       IN /\ setex_task(task)
          /\ loopTask' = [loopTask EXCEPT ![ty] = <<task>>]
    /\ loopPc' = [loopPc EXCEPT ![ty] = "retry_lpush"]
    /\ UNCHANGED <<redis_list, now, running, loopId, loopError, loopCancelled, apiVars,
                   cancelVars, histVars>>
    /\ UNCHANGED extVars

\* ... and the LPUSH; the iteration ends
retry_enqueue_lpush(ty) ==
    /\ loopPc[ty] = "retry_lpush"
    /\ LET task == loopTask[ty][1]
           q == _get_queue_name(task.type)
       IN /\ lpush(q, task.id)
          /\ pushLog' = [pushLog EXCEPT ![q] = Append(@, task.id)]
    /\ loopPc' = [loopPc EXCEPT ![ty] = "brpop"]
    /\ loopId' = [loopId EXCEPT ![ty] = None]
    /\ loopTask' = [loopTask EXCEPT ![ty] = <<>>]
    /\ loopCancelled' = [loopCancelled EXCEPT ![ty] = FALSE]
    /\ UNCHANGED <<redis_task, redis_status, now, running, loopError, apiVars,
                   cancelVars, handlerCalls, handlerOk, cancelHist, popLog>>
    /\ UNCHANGED extVars

\* complete_task: get_task and the edit of its own local object
complete_task_get(ty) ==
    /\ loopPc[ty] = "complete_get"
    /\ LET got == get_task(loopId[ty])
       IN IF got = <<>>
          THEN /\ loopPc' = [loopPc EXCEPT ![ty] = "brpop"]
               /\ loopId' = [loopId EXCEPT ![ty] = None]
               /\ loopTask' = [loopTask EXCEPT ![ty] = <<>>]
          ELSE /\ loopTask' = [loopTask EXCEPT ![ty] =
                     <<[got[1] EXCEPT
                          !.completed_at = now,
                          !.result = ~loopError[ty],
                          !.error = loopError[ty],
                          !.status = IF loopError[ty] THEN "FAILED" ELSE "COMPLETED"]>>]
               /\ loopPc' = [loopPc EXCEPT ![ty] = "complete_update"]
               /\ UNCHANGED loopId
    /\ UNCHANGED <<redis_task, redis_status, redis_list, now, running, loopError, loopCancelled,
                   apiVars, cancelVars, histVars>>
    /\ UNCHANGED extVars

\* complete_task: update_task(task); the iteration ends
complete_task_update(ty) ==
    /\ loopPc[ty] = "complete_update"
    /\ setex_task(loopTask[ty][1])
    /\ loopPc' = [loopPc EXCEPT ![ty] = "brpop"]
    /\ loopId' = [loopId EXCEPT ![ty] = None]
    /\ loopTask' = [loopTask EXCEPT ![ty] = <<>>]
    /\ loopError' = [loopError EXCEPT ![ty] = FALSE]
    /\ loopCancelled' = [loopCancelled EXCEPT ![ty] = FALSE]
    /\ UNCHANGED <<redis_list, now, running, apiVars, cancelVars, histVars>>
    /\ UNCHANGED extVars

WorkerStep(ty) ==
    \/ dequeue_task_brpop(ty)
    \/ dequeue_task_get(ty)
    \/ dequeue_task_update(ty)
    \/ handler_return(ty)
    \/ handler_raise(ty)
    \/ retry_update(ty)
    \/ retry_enqueue_setex(ty)
    \/ retry_enqueue_lpush(ty)
    \/ complete_task_get(ty)
    \/ complete_task_update(ty)

\* The queue, its callers and the worker.  The clock stands still here:
\* no operation branches on a timestamp, so the untimed behaviours are the
\* timed ones with the timestamps forgotten.
Next ==
    \/ \E id \in TaskIds : api_enqueue_setex(id)
    \/ \E id \in TaskIds : api_enqueue_lpush(id)
    \/ \E c \in Callers, id \in TaskIds : cancel_task_get(c, id)
    \/ \E c \in Callers : cancel_task_update(c)
    \/ start
    \/ stop
    \/ \E ty \in TaskType : dequeue_task_brpop(ty)
    \/ \E ty \in TaskType : dequeue_task_get(ty)
    \/ \E ty \in TaskType : dequeue_task_update(ty)
    \/ \E ty \in TaskType : handler_return(ty)
    \/ \E ty \in TaskType : handler_raise(ty)
    \/ \E ty \in TaskType : retry_update(ty)
    \/ \E ty \in TaskType : retry_enqueue_setex(ty)
    \/ \E ty \in TaskType : retry_enqueue_lpush(ty)
    \/ \E ty \in TaskType : complete_task_get(ty)
    \/ \E ty \in TaskType : complete_task_update(ty)

Spec == Init /\ [][Next]_vars

\* The same operations under a running clock, with a worker that is started
\* and not stopped.
NextClock ==
    \/ Tick
    \/ \E id \in TaskIds : api_enqueue_setex(id)
    \/ \E id \in TaskIds : api_enqueue_lpush(id)
    \/ \E c \in Callers, id \in TaskIds : cancel_task_get(c, id)
    \/ \E c \in Callers : cancel_task_update(c)
    \/ start
    \/ \E ty \in TaskType : dequeue_task_brpop(ty)
    \/ \E ty \in TaskType : dequeue_task_get(ty)
    \/ \E ty \in TaskType : dequeue_task_update(ty)
    \/ \E ty \in TaskType : handler_return(ty)
    \/ \E ty \in TaskType : handler_raise(ty)
    \/ \E ty \in TaskType : retry_update(ty)
    \/ \E ty \in TaskType : retry_enqueue_setex(ty)
    \/ \E ty \in TaskType : retry_enqueue_lpush(ty)
    \/ \E ty \in TaskType : complete_task_get(ty)
    \/ \E ty \in TaskType : complete_task_update(ty)

SpecClock == Init /\ [][NextClock]_vars

\* asyncio runs every coroutine that is ready: a consumer loop that can take
\* a step takes it, and an API call or a cancel_task that was started
\* finishes.  Nothing obliges a caller to start, stop, enqueue or cancel.
Fairness ==
    /\ \A ty \in TaskType : WF_vars(WorkerStep(ty))
    /\ \A id \in TaskIds : WF_vars(api_enqueue_lpush(id))
    /\ \A c \in Callers : WF_vars(cancel_task_update(c))

FairSpec == Init /\ [][Next]_vars /\ Fairness

\* ------------------------------------------- failing queue operations
\* Every queue operation starts with _ensure_connected and then issues Redis
\* commands; each of them may raise (connection refused, timeout), and
\* update_task may raise in model_dump_json before it writes.  An operation
\* that raises has written nothing in the step it raises in.

\* a loop that lets the exception end it
loop_breaks == "dead"

\* _worker_loop: "except Exception" logs and awaits asyncio.sleep(1)
loop_except_Exception == "sleep"

\* the exception reaches the handler of the loop: the iteration is over and
\* its locals are gone
loop_exception(ty) ==
    /\ loopPc' = [loopPc EXCEPT ![ty] = loop_except_Exception]
    /\ loopId' = [loopId EXCEPT ![ty] = None]
    /\ loopTask' = [loopTask EXCEPT ![ty] = <<>>]
    /\ loopError' = [loopError EXCEPT ![ty] = FALSE]
    /\ loopCancelled' = [loopCancelled EXCEPT ![ty] = FALSE]

\* dequeue_task raises at its BRPOP, its GET or its update_task
dequeue_task_raises(ty) ==
    /\ running
    /\ loopPc[ty] \in {"brpop", "get", "update"}
    /\ loop_exception(ty)
    /\ UNCHANGED <<redis_task, redis_status, redis_list, now, running,
                   apiVars, cancelVars, histVars>>
    /\ UNCHANGED extVars

\* a complete_task call placed after the try statement
outside_try(err) == FALSE

\* _process_task: complete_task(task.id, result=result) is inside the try,
\* complete_task(task.id, error=...) is inside the except clause
inside_try(err) == ~err

\* complete_task raises (at get_task, or in update_task before its write:
\* either way nothing was written and the task of _process_task is as the
\* handler left it).  Raised inside the try, the exception is handled as a
\* failure of the handler is; raised inside the except clause, it leaves
\* _process_task and reaches the loop.
complete_task_raises(ty) ==
    /\ loopPc[ty] = "complete_get"
    /\ IF inside_try(loopError[ty])
       THEN /\ IF should_retry(loopTask[ty][1])
               THEN /\ loopTask' = [loopTask EXCEPT ![ty] =
                          <<[@[1] EXCEPT !.retry_count = @ + 1, !.status = "QUEUED",
                                         !.error = FALSE]>>]
                    /\ loopPc' = [loopPc EXCEPT ![ty] = "retry_update"]
                    /\ UNCHANGED loopError
               ELSE /\ loopError' = [loopError EXCEPT ![ty] = TRUE]
                    /\ UNCHANGED <<loopPc, loopTask>>
            /\ UNCHANGED <<loopId, loopCancelled>>
       ELSE loop_exception(ty)
    /\ UNCHANGED <<redis_task, redis_status, redis_list, now, running,
                   apiVars, cancelVars, histVars>>
    /\ UNCHANGED extVars

\* the update_task or the enqueue_task of a retry raises
retry_raises(ty) ==
    /\ loopPc[ty] \in {"retry_update", "retry_setex", "retry_lpush"}
    /\ loop_exception(ty)
    /\ UNCHANGED <<redis_task, redis_status, redis_list, now, running,
                   apiVars, cancelVars, histVars>>
    /\ UNCHANGED extVars

\* asyncio.sleep(1) returns and the loop tests self.running again
loop_sleep_returns(ty) ==
    /\ loopPc[ty] = "sleep"
    /\ loopPc' = [loopPc EXCEPT ![ty] = IF running THEN "brpop" ELSE "dead"]
    /\ UNCHANGED <<redis_task, redis_status, redis_list, now, running, loopId,
                   loopTask, loopError, loopCancelled, apiVars, cancelVars,
                   histVars>>
    /\ UNCHANGED extVars

\* enqueue_task raises at its LPUSH (manager.py 150), after the two SETEX:
\* nothing is pushed; execute_workflow catches the exception (api/workflow.py
\* 198) and runs the workflow synchronously, the record stays as written
api_enqueue_lpush_raises(id) ==
    /\ apiPc[id] = "lpush"
    /\ apiPc' = [apiPc EXCEPT ![id] = "failed"]
    /\ UNCHANGED <<redis_task, redis_status, redis_list, now, running,
                   loopVars, apiTask, cancelVars, histVars>>
    /\ UNCHANGED extVars

\* The worker and the API callers with a Redis that may fail under the
\* worker.  cancel_task is left out: it does not run in the consumer loops.
FaultNext ==
    \/ \E id \in TaskIds : api_enqueue_setex(id)
    \/ \E id \in TaskIds : api_enqueue_lpush(id)
    \/ \E id \in TaskIds : api_enqueue_lpush_raises(id)
    \/ start
    \/ stop
    \/ \E ty \in TaskType : dequeue_task_brpop(ty)
    \/ \E ty \in TaskType : dequeue_task_get(ty)
    \/ \E ty \in TaskType : dequeue_task_update(ty)
    \/ \E ty \in TaskType : handler_return(ty)
    \/ \E ty \in TaskType : handler_raise(ty)
    \/ \E ty \in TaskType : retry_update(ty)
    \/ \E ty \in TaskType : retry_enqueue_setex(ty)
    \/ \E ty \in TaskType : retry_enqueue_lpush(ty)
    \/ \E ty \in TaskType : complete_task_get(ty)
    \/ \E ty \in TaskType : complete_task_update(ty)
    \/ \E ty \in TaskType : dequeue_task_raises(ty)
    \/ \E ty \in TaskType : complete_task_raises(ty)
    \/ \E ty \in TaskType : retry_raises(ty)
    \/ \E ty \in TaskType : loop_sleep_returns(ty)

FaultSpec == Init /\ [][FaultNext]_vars

\* ----------------------------------- TaskWorker.start / stop, step by step
\* The calls of start() and stop() come one after the other (queue/startup.py
\* awaits start() and, in its finally clause, stop()); the consumer loops run
\* between the steps of a call.

\* "for task_type in TaskType": the kinds in the order of the Enum
KindsInOrder == <<"WORKFLOW_EXECUTE", "CHAT_PROCESS">>

\* a start that spawns a loop for the first kind only
first_kind_only == <<KindsInOrder[1]>>

\* start: the kinds with an entry in self.task_handlers, in Enum order
kinds_with_handler == KindsInOrder

\* a stop that does not wait for the loop it cancelled
terminated_or_cancelled(pc) == pc \in {"dead", "cancelled"}

\* "await worker_task" returns once the loop has ended
terminated(pc) == pc = "dead"

\* start() on a running worker: logs a warning and returns
start_running ==
    /\ lifePc = "idle"
    /\ running
    /\ lifeLast' = "start_noop"
    /\ UNCHANGED <<queueVars, now, cacheVars, bufVars, retryVars, chatVars, agentVars,
                   workers, _connected, lifePc, stopIdx>>

\* start(): connect() succeeds; the flag is set and a loop is created for
\* every kind with a handler, each stored in self.workers
start_spawn ==
    /\ lifePc = "idle"
    /\ ~running
    /\ _connected' = TRUE
    /\ running' = TRUE
    /\ loopPc' = [ty \in TaskType |->
                    IF \E i \in 1..Len(kinds_with_handler) : kinds_with_handler[i] = ty
                    THEN "brpop" ELSE loopPc[ty]]
    /\ workers' = kinds_with_handler
    /\ lifeLast' = "start"
    /\ UNCHANGED <<redis_task, redis_status, redis_list, now, loopId, loopTask,
                   loopError, loopCancelled, apiVars, cancelVars, histVars,
                   cacheVars, bufVars, retryVars, chatVars, agentVars,
                   lifePc, stopIdx>>

\* start(): connect() raises; the exception leaves start before the flag
start_connect_raises ==
    /\ lifePc = "idle"
    /\ ~running
    /\ _connected' = FALSE
    /\ lifeLast' = "start_raised"
    /\ UNCHANGED <<queueVars, now, cacheVars, bufVars, retryVars, chatVars, agentVars,
                   workers, lifePc, stopIdx>>

\* stop() on a worker that is not running returns at once
stop_not_running ==
    /\ lifePc = "idle"
    /\ ~running
    /\ lifeLast' = "stop_noop"
    /\ UNCHANGED <<queueVars, now, cacheVars, bufVars, retryVars, chatVars, agentVars,
                   workers, _connected, lifePc, stopIdx>>

\* stop(): self.running = False, and the for loop begins
stop_flag ==
    /\ lifePc = "idle"
    /\ running
    /\ running' = FALSE
    /\ lifePc' = "cancel"
    /\ stopIdx' = 1
    /\ UNCHANGED <<redis_task, redis_status, redis_list, now, loopVars, apiVars,
                   cancelVars, histVars, cacheVars, bufVars, retryVars, chatVars, agentVars,
                   workers, _connected, lifeLast>>

\* stop(): worker_task.cancel() for the next entry: the loop will be resumed
\* with a CancelledError at the await it is suspended in
stop_cancel ==
    /\ lifePc = "cancel"
    /\ LET ty == workers[stopIdx]
       IN loopPc' = [loopPc EXCEPT ![ty] = IF @ = "dead" THEN "dead" ELSE "cancelled"]
    /\ lifePc' = "await"
    /\ UNCHANGED <<redis_task, redis_status, redis_list, now, running, loopId,
                   loopTask, loopError, loopCancelled, apiVars, cancelVars,
                   histVars, cacheVars, bufVars, retryVars, chatVars, agentVars,
                   workers, _connected, stopIdx, lifeLast>>

\* the cancelled loop: "except asyncio.CancelledError: break"
loop_break(ty) ==
    /\ loopPc[ty] = "cancelled"
    /\ loopPc' = [loopPc EXCEPT ![ty] = "dead"]
    /\ loopId' = [loopId EXCEPT ![ty] = None]
    /\ loopTask' = [loopTask EXCEPT ![ty] = <<>>]
    /\ loopError' = [loopError EXCEPT ![ty] = FALSE]
    /\ loopCancelled' = [loopCancelled EXCEPT ![ty] = FALSE]
    /\ UNCHANGED <<redis_task, redis_status, redis_list, now, running, apiVars,
                   cancelVars, histVars>>
    /\ UNCHANGED extVars

\* a loop that was not cancelled yet finds self.running False at its while
loop_exit(ty) ==
    /\ ~running
    /\ loopPc[ty] = "brpop"
    /\ loopPc' = [loopPc EXCEPT ![ty] = "dead"]
    /\ UNCHANGED <<redis_task, redis_status, redis_list, now, running, loopId,
                   loopTask, loopError, loopCancelled, apiVars, cancelVars,
                   histVars>>
    /\ UNCHANGED extVars

\* stop(): "await worker_task" returns; after the last entry
\* self.workers.clear() and disconnect() is called, which sets
\* _connected = False before its first await
stop_await ==
    /\ lifePc = "await"
    /\ terminated(loopPc[workers[stopIdx]])
    /\ IF stopIdx < Len(workers)
       THEN /\ stopIdx' = stopIdx + 1
            /\ lifePc' = "cancel"
            /\ UNCHANGED <<workers, _connected>>
       ELSE /\ stopIdx' = 0
            /\ lifePc' = "disconnect"
            /\ workers' = <<>>
            /\ _connected' = FALSE
    /\ UNCHANGED <<queueVars, now, cacheVars, bufVars, retryVars, chatVars, agentVars,
                   lifeLast>>

\* stop(): disconnect() has closed the client and the pool (a failure to
\* close is logged); stop returns
stop_disconnect ==
    /\ lifePc = "disconnect"
    /\ lifePc' = "idle"
    /\ lifeLast' = "stop"
    /\ UNCHANGED <<queueVars, now, cacheVars, bufVars, retryVars, chatVars, agentVars,
                   workers, _connected, stopIdx>>

LifeNext ==
    \/ \E id \in TaskIds : api_enqueue_setex(id)
    \/ \E id \in TaskIds : api_enqueue_lpush(id)
    \/ start_running
    \/ start_spawn
    \/ start_connect_raises
    \/ stop_not_running
    \/ stop_flag
    \/ stop_cancel
    \/ stop_await
    \/ stop_disconnect
    \/ \E ty \in TaskType : loop_break(ty)
    \/ \E ty \in TaskType : loop_exit(ty)
    \/ \E ty \in TaskType : dequeue_task_brpop(ty)
    \/ \E ty \in TaskType : dequeue_task_get(ty)
    \/ \E ty \in TaskType : dequeue_task_update(ty)
    \/ \E ty \in TaskType : handler_return(ty)
    \/ \E ty \in TaskType : handler_raise(ty)
    \/ \E ty \in TaskType : retry_update(ty)
    \/ \E ty \in TaskType : retry_enqueue_setex(ty)
    \/ \E ty \in TaskType : retry_enqueue_lpush(ty)
    \/ \E ty \in TaskType : complete_task_get(ty)
    \/ \E ty \in TaskType : complete_task_update(ty)

LifeSpec == Init /\ [][LifeNext]_vars

\* ============================================================ the caches
\* app/utils/cache.py.  An entry of self._cache is key -> value (LRUCache) or
\* key -> (value, expire_time) (TTLCache, LRUTTLCache); the position in the
\* sequence is the position in the dict.  The field ttl of an entry is
\* history: the ttl argument of the set that wrote it.
TtlArgs == {<<>>} \cup {<<t>> : t \in 0..MaxTtl}

KeysOf(c) == {c[i].key : i \in 1..Len(c)}

IndexOf(c, k) == CHOOSE i \in 1..Len(c) : c[i].key = k

\* del self._cache[key]
delitem(c, k) == SelectSeq(c, LAMBDA e : e.key # k)

\* self._cache[key] = ...: an existing key keeps its place, a new one is last
setitem(c, k, e) ==
    IF k \in KeysOf(c) THEN [c EXCEPT ![IndexOf(c, k)] = e] ELSE Append(c, e)

\* a promotion that is forgotten: the dict is left in its order
move_to_end_skipped(c, k) == c

\* OrderedDict.move_to_end(key)
move_to_end(c, k) == delitem(c, k) \o <<c[IndexOf(c, k)]>>

\* a victim choice that prefers an entry whose expiry has come
expired_key_first(c) ==
    IF \E i \in 1..Len(c) : c[i].expire_time <= now
    THEN c[CHOOSE i \in 1..Len(c) : c[i].expire_time <= now].key
    ELSE c[1].key

\* next(iter(self._cache))
oldest_key(c) == c[1].key

\* a capacity test that lets one entry too many stay
over_capacity_by_two(c) == Len(c) > max_size + 1

\* len(self._cache) > self.max_size
over_capacity(c) == Len(c) > max_size

\* a default taken for a missing ttl only (ttl if ttl is not None else ...)
ttl_or_default_strict(ttl) == IF ttl = <<>> THEN DefaultTtl ELSE ttl[1]

\* ttl or self.default_ttl: None and 0 are both falsy
ttl_or_default(ttl) == IF ttl = <<>> \/ ttl[1] = 0 THEN DefaultTtl ELSE ttl[1]

\* the entry that set writes
new_entry(k, v, ttl) ==
    [key |-> k, value |-> v, ttl |-> ttl,
     expire_time |-> IF cacheKind = "LRU" THEN None ELSE now + ttl_or_default(ttl)]

\* set, up to the capacity test: the dict after the write
set_put(c, k, v, ttl) ==
    IF cacheKind # "TTL" /\ k \in KeysOf(c)
    THEN setitem(move_to_end(c, k), k, new_entry(k, v, ttl))
    ELSE setitem(c, k, new_entry(k, v, ttl))

\* set, the capacity test of a new key: the dict after it
set_evict(c) == IF over_capacity(c) THEN delitem(c, oldest_key(c)) ELSE c

\* set as a whole
set_whole(c, k, v, ttl) ==
    IF cacheKind = "TTL" \/ k \in KeysOf(c)
    THEN set_put(c, k, v, ttl) ELSE set_evict(set_put(c, k, v, ttl))

\* get: is the entry of a held key still good (time.time() < expire_time)
fresh(e) == cacheKind = "LRU" \/ now < e.expire_time

\* a get that renews the expiry of the entry it returns (a sliding expiry)
get_cache_refreshing(c, k) ==
    IF k \notin KeysOf(c) THEN c
    ELSE IF ~fresh(c[IndexOf(c, k)]) THEN delitem(c, k)
    ELSE setitem(IF cacheKind = "TTL" THEN c ELSE move_to_end(c, k), k,
                 [c[IndexOf(c, k)] EXCEPT !.expire_time = now + DefaultTtl])

\* get: the dict after the call
get_cache(c, k) ==
    IF k \notin KeysOf(c) THEN c
    ELSE IF ~fresh(c[IndexOf(c, k)]) THEN delitem(c, k)
    ELSE IF cacheKind = "TTL" THEN c ELSE move_to_end(c, k)

\* get: the value returned, None for a miss
get_value(c, k) ==
    IF k \in KeysOf(c) /\ fresh(c[IndexOf(c, k)]) THEN c[IndexOf(c, k)].value ELSE None

\* cleanup_expired: the entries with expire_time <= current_time are deleted
cleanup_cache(c) == SelectSeq(c, LAMBDA e : ~(e.expire_time <= now))

\* the keys in dict order
keys_list(c) == [i \in 1..Len(c) |-> c[i].key]

\* history: k was set or hit; keys no longer held are forgotten
touch(u, k, held) == SelectSeq(SelectSeq(u, LAMBDA x : x # k) \o <<k>>, LAMBDA x : x \in held)

\* a lock that is handed out without being waited for
lock_always_free == TRUE

\* Lock.acquire succeeds when no thread holds the lock
lock_free == _lock = NoThread

\* with self._lock: the thread enters the block
acquire(t) ==
    /\ cacheKind # "none"
    /\ thPc[t] = "idle"
    /\ lock_free
    /\ _lock' = t
    /\ thPc' = [thPc EXCEPT ![t] = "locked"]
    /\ UNCHANGED <<queueVars, now, cacheKind, max_size, _cache, thRet, linCache,
                   linRet, uses, evicted, evictedFresh>>
    /\ UNCHANGED <<bufVars, retryVars, chatVars, appVars>>

\* the thread leaves the block and its call returns
release(t) ==
    /\ thPc[t] = "unlock"
    /\ _lock' = NoThread
    /\ thPc' = [thPc EXCEPT ![t] = "idle"]
    /\ thRet' = [thRet EXCEPT ![t] = <<>>]
    /\ linRet' = [linRet EXCEPT ![t] = <<>>]
    /\ UNCHANGED <<queueVars, now, cacheKind, max_size, _cache, linCache, uses,
                   evicted, evictedFresh>>
    /\ UNCHANGED <<bufVars, retryVars, chatVars, appVars>>

\* the body of a call ran up to position pc: the dict is c and the call will
\* return ret; applied whole to linCache the call gives lc and lret
body(t, pc, c, ret, lc, lret, u) ==
    /\ thPc[t] = "locked"
    /\ thPc' = [thPc EXCEPT ![t] = pc]
    /\ _cache' = c
    /\ thRet' = [thRet EXCEPT ![t] = ret]
    /\ linCache' = lc
    /\ linRet' = [linRet EXCEPT ![t] = lret]
    /\ uses' = SelectSeq(u, LAMBDA x : x \in KeysOf(c))
    /\ UNCHANGED <<queueVars, now, cacheKind, max_size, _lock, evicted, evictedFresh>>
    /\ UNCHANGED <<bufVars, retryVars, chatVars, appVars>>

\* get(key)
cache_get(t, k) ==
    body(t, "unlock",
         get_cache(_cache, k), <<"get", get_value(_cache, k)>>,
         get_cache(linCache, k), <<"get", get_value(linCache, k)>>,
         IF get_value(_cache, k) # None
         THEN touch(uses, k, KeysOf(_cache)) ELSE uses)

\* set(key, value[, ttl]) up to the capacity test, which only a new key of
\* an LRU or LRU+TTL cache reaches
cache_set(t, k, v, ttl) ==
    /\ cacheKind = "LRU" => ttl = <<>>
    /\ body(t, IF cacheKind # "TTL" /\ k \notin KeysOf(_cache) THEN "evict" ELSE "unlock",
            set_put(_cache, k, v, ttl), <<"set", None>>,
            set_whole(linCache, k, v, ttl), <<"set", None>>,
            touch(uses, k, KeysOf(_cache) \cup {k}))

\* history: the capacity test of set on dict c removes an entry that get
\* would still return while an entry that get would drop stays in the dict
evicts_fresh_for_expired(c) ==
    /\ cacheKind = "LRUTTL"
    /\ Len(set_evict(c)) < Len(c)
    /\ \E i \in 1..Len(c) :
         /\ c[i].key \notin KeysOf(set_evict(c))
         /\ now < c[i].expire_time
    /\ \E i \in 1..Len(set_evict(c)) : ~(now < set_evict(c)[i].expire_time)

\* set: the capacity test and the eviction of the oldest key
cache_set_evict(t) ==
    /\ thPc[t] = "evict"
    /\ thPc' = [thPc EXCEPT ![t] = "unlock"]
    /\ _cache' = set_evict(_cache)
    /\ uses' = SelectSeq(uses, LAMBDA x : x \in KeysOf(set_evict(_cache)))
    /\ evicted' = (evicted \/ Len(set_evict(_cache)) < Len(_cache))
    /\ evictedFresh' = (evictedFresh \/ evicts_fresh_for_expired(_cache))
    /\ UNCHANGED <<queueVars, now, cacheKind, max_size, _lock, thRet, linCache, linRet>>
    /\ UNCHANGED <<bufVars, retryVars, chatVars, appVars>>

\* delete(key)
cache_delete(t, k) ==
    body(t, "unlock",
         delitem(_cache, k), <<"delete", k \in KeysOf(_cache)>>,
         delitem(linCache, k), <<"delete", k \in KeysOf(linCache)>>, uses)

\* clear()
cache_clear(t) ==
    body(t, "unlock", <<>>, <<"clear", None>>, <<>>, <<"clear", None>>, uses)

\* size()
cache_size(t) ==
    body(t, "unlock", _cache, <<"size", Len(_cache)>>,
         linCache, <<"size", Len(linCache)>>, uses)

\* keys() of LRUCache and LRUTTLCache
cache_keys(t) ==
    /\ cacheKind # "TTL"
    /\ body(t, "unlock", _cache, <<"keys", keys_list(_cache)>>,
            linCache, <<"keys", keys_list(linCache)>>, uses)

\* cleanup_expired() of TTLCache and LRUTTLCache
cleanup_expired(t) ==
    /\ cacheKind # "LRU"
    /\ body(t, "unlock",
            cleanup_cache(_cache),
            <<"cleanup_expired", Len(_cache) - Len(cleanup_cache(_cache))>>,
            cleanup_cache(linCache),
            <<"cleanup_expired", Len(linCache) - Len(cleanup_cache(linCache))>>, uses)

\* one cache instance of any of the three classes, its callers and the clock
CacheInit ==
    /\ queue_init
    /\ buffers_init
    /\ retry_init(0)
    /\ chat_init
    /\ app_init
    /\ now = 1
    /\ \/ \E kind \in {"LRU", "LRUTTL"}, n \in 1..MaxSize : cache_init(kind, n)
       \/ cache_init("TTL", 0)

CacheNext ==
    \/ Tick
    \/ \E t \in Threads : acquire(t)
    \/ \E t \in Threads : release(t)
    \/ \E t \in Threads, k \in Keys : cache_get(t, k)
    \/ \E t \in Threads, k \in Keys, v \in Values, ttl \in TtlArgs : cache_set(t, k, v, ttl)
    \/ \E t \in Threads : cache_set_evict(t)
    \/ \E t \in Threads, k \in Keys : cache_delete(t, k)
    \/ \E t \in Threads : cache_clear(t)
    \/ \E t \in Threads : cache_size(t)
    \/ \E t \in Threads : cache_keys(t)
    \/ \E t \in Threads : cleanup_expired(t)

CacheSpec == CacheInit /\ [][CacheNext]_vars

\* time.time() advances while a cache with expiry is in use
time_passes ==
    /\ now < MaxCacheTime
    /\ now' = now + 1
    /\ UNCHANGED <<queueVars, cacheVars, bufVars, retryVars, chatVars, appVars>>

\* one TTLCache or LRUTTLCache, one caller at a time, and the clock running
\* past the expiry of the entries
ExpiryInit ==
    /\ queue_init
    /\ buffers_init
    /\ retry_init(0)
    /\ chat_init
    /\ app_init
    /\ now = 1
    /\ \/ \E n \in 1..MaxSize : cache_init("LRUTTL", n)
       \/ cache_init("TTL", 0)

ExpiryNext ==
    \/ time_passes
    \/ acquire(1)
    \/ release(1)
    \/ \E k \in Keys : cache_get(1, k)
    \/ \E k \in Keys, ttl \in TtlArgs : cache_set(1, k, MaxValue, ttl)
    \/ cache_set_evict(1)
    \/ cache_size(1)
    \/ cleanup_expired(1)

ExpirySpec == ExpiryInit /\ [][ExpiryNext]_vars

\* ================================================ the stream buffers
\* app/utils/llm_response.py.  A StreamResponseBuffer is an object: the
\* handler's registry and the locals of the coroutines hold references
\* (positions in heap), so a buffer that the registry no longer names still
\* exists for who holds it.
Errors == {"cancelled", "stream failed"}

\* StreamResponseBuffer.__init__
StreamResponseBuffer == [buffer |-> <<>>, complete |-> FALSE, error |-> <<>>]

\* StreamResponseBuffer.append
append(b, chunk) == [b EXCEPT !.buffer = Append(@, chunk)]

\* StreamResponseBuffer.mark_complete
mark_complete(b) == [b EXCEPT !.complete = TRUE]

\* StreamResponseBuffer.mark_error
mark_error(b, e) == [b EXCEPT !.error = <<e>>]

\* LLMResponseHandler.get_buffer
get_buffer(rid) == _buffers[rid]

\* the heap after create_buffer: a new object, whatever is registered
heap_create(h) == Append(h, StreamResponseBuffer)

\* a registry that keeps a buffer already registered (dict.setdefault)
buffers_keep(bs, rid, obj) ==
    IF bs[rid] # NoBuffer THEN bs ELSE [bs EXCEPT ![rid] = obj]

\* the registry after create_buffer: the new object replaces the old entry
buffers_create(bs, rid, obj) == [bs EXCEPT ![rid] = obj]

\* LLMResponseHandler.cleanup_buffer
buffers_cleanup(bs, rid) == [bs EXCEPT ![rid] = NoBuffer]

\* a caller calls handler.create_buffer(response_id)
api_create_buffer(rid) ==
    /\ Len(heap) < MaxBuffers
    /\ heap' = heap_create(heap)
    /\ _buffers' = buffers_create(_buffers, rid, Len(heap) + 1)
    /\ UNCHANGED <<queueVars, now, cacheVars, chatVars, appVars, retryVars>>

\* a caller calls append(chunk) on the buffer it got from get_buffer
api_append(rid, chunk) ==
    /\ get_buffer(rid) # NoBuffer
    /\ Len(heap[get_buffer(rid)].buffer) < MaxChunks
    /\ heap' = [heap EXCEPT ![get_buffer(rid)] = append(@, chunk)]
    /\ UNCHANGED <<queueVars, now, cacheVars, chatVars, appVars, retryVars, _buffers>>

\* ... mark_complete()
api_mark_complete(rid) ==
    /\ get_buffer(rid) # NoBuffer
    /\ heap' = [heap EXCEPT ![get_buffer(rid)] = mark_complete(@)]
    /\ UNCHANGED <<queueVars, now, cacheVars, chatVars, appVars, retryVars, _buffers>>

\* ... mark_error(error)
api_mark_error(rid, e) ==
    /\ get_buffer(rid) # NoBuffer
    /\ heap' = [heap EXCEPT ![get_buffer(rid)] = mark_error(@, e)]
    /\ UNCHANGED <<queueVars, now, cacheVars, chatVars, appVars, retryVars, _buffers>>

\* a caller calls handler.cleanup_buffer(response_id)
api_cleanup_buffer(rid) ==
    /\ get_buffer(rid) # NoBuffer
    /\ _buffers' = buffers_cleanup(_buffers, rid)
    /\ UNCHANGED <<queueVars, now, cacheVars, chatVars, appVars, retryVars, heap>>

\* the public methods of the buffers and of the registry, in any order
BufferInit ==
    /\ queue_init
    /\ now = 1
    /\ cache_init("none", 0)
    /\ buffers_init
    /\ retry_init(0)
    /\ chat_init
    /\ app_init

BufferNext ==
    \/ \E rid \in ResponseIds : api_create_buffer(rid)
    \/ \E rid \in ResponseIds, chunk \in Chunks : api_append(rid, chunk)
    \/ \E rid \in ResponseIds : api_mark_complete(rid)
    \/ \E rid \in ResponseIds, e \in Errors : api_mark_error(rid, e)
    \/ \E rid \in ResponseIds : api_cleanup_buffer(rid)

BufferSpec == BufferInit /\ [][BufferNext]_vars

\* ======================================= LLMResponseHandler.process_with_retry
\* One call, alone on its response id.  The call is one coroutine: it runs
\* without interruption from one await to the next (stream_func(), the next
\* chunk of the stream, asyncio.sleep).  What an await can raise is an
\* Exception of the stream or the CancelledError of a cancelled caller.
Raised == {"Exception", "CancelledError"}

\* an except clause that catches the cancellation too
caught_with_cancellation(e) == TRUE

\* except Exception: asyncio.CancelledError is a BaseException, not caught
caught_by_except_Exception(e) == e # "CancelledError"

\* process_with_retry(stream_func, response_id) is called
rw_call(rid) ==
    /\ rwPc = "idle"
    /\ rwPc' = "loop"
    /\ rwRid' = rid
    /\ rwAttempt' = 0
    /\ UNCHANGED <<queueVars, now, cacheVars, chatVars, appVars, bufVars, llm_max_retries, rwBuf,
                   rwOut, keptObj>>

\* the except clause of process_with_retry, entered with exception e while
\* the heap is h: sleep before the next attempt, or mark the registered
\* buffer and re-raise after the last one; what is not caught propagates
retry_except(e, h) ==
    IF caught_by_except_Exception(e) /\ rwAttempt < llm_max_retries - 1
    THEN /\ heap' = h
         /\ rwPc' = "sleep"
         /\ rwOut' = rwOut
    ELSE /\ heap' = IF caught_by_except_Exception(e) /\ get_buffer(rwRid) # NoBuffer
                    THEN [h EXCEPT ![get_buffer(rwRid)] = mark_error(@, "stream failed")]
                    ELSE h
         /\ rwPc' = "done"
         /\ rwOut' = <<"raise", e>>

\* an attempt: stream_func() returns a stream and process_stream registers a
\* new buffer for the response id
rw_stream_func_returns ==
    /\ rwPc = "loop"
    /\ rwAttempt < llm_max_retries
    /\ heap' = heap_create(heap)
    /\ _buffers' = buffers_create(_buffers, rwRid, Len(heap) + 1)
    /\ rwBuf' = Len(heap) + 1
    /\ rwPc' = "stream"
    /\ UNCHANGED <<queueVars, now, cacheVars, chatVars, appVars, llm_max_retries, rwRid, rwAttempt,
                   rwOut, keptObj>>

\* an attempt: stream_func() raises, or the caller is cancelled while it runs
rw_stream_func_raises(e) ==
    /\ rwPc = "loop"
    /\ rwAttempt < llm_max_retries
    /\ retry_except(e, heap)
    /\ UNCHANGED <<queueVars, now, cacheVars, chatVars, appVars, _buffers, llm_max_retries, rwRid,
                   rwAttempt, rwBuf, keptObj>>

\* range(self.max_retries) is exhausted (max_retries = 0): the registered
\* buffer is returned if there is one, else last_error (None) is raised
rw_loop_exhausted ==
    /\ rwPc = "loop"
    /\ rwAttempt >= llm_max_retries
    /\ rwPc' = "done"
    /\ rwOut' = IF get_buffer(rwRid) # NoBuffer
                THEN <<"return", get_buffer(rwRid)>> ELSE <<"raise", "TypeError">>
    /\ UNCHANGED <<queueVars, now, cacheVars, chatVars, appVars, bufVars, llm_max_retries, rwRid,
                   rwAttempt, rwBuf, keptObj>>

\* process_stream: the stream yields a chunk
rw_chunk(chunk) ==
    /\ rwPc = "stream"
    /\ Len(heap[rwBuf].buffer) < MaxChunks
    /\ heap' = [heap EXCEPT ![rwBuf] = append(@, chunk)]
    /\ UNCHANGED <<queueVars, now, cacheVars, chatVars, appVars, _buffers, retryVars>>

\* process_stream: the stream ends; the buffer is completed and returned
rw_stream_end ==
    /\ rwPc = "stream"
    /\ heap' = [heap EXCEPT ![rwBuf] = mark_complete(@)]
    /\ rwPc' = "done"
    /\ rwOut' = <<"return", rwBuf>>
    /\ UNCHANGED <<queueVars, now, cacheVars, chatVars, appVars, _buffers, llm_max_retries, rwRid,
                   rwAttempt, rwBuf, keptObj>>

\* process_stream: the stream raises, or the caller is cancelled while it
\* waits for a chunk; the buffer is marked and the exception re-raised into
\* process_with_retry
rw_stream_raises(e) ==
    /\ rwPc = "stream"
    /\ retry_except(e, [heap EXCEPT ![rwBuf] =
            mark_error(@, IF e = "CancelledError" THEN "cancelled" ELSE "stream failed")])
    /\ keptObj' = IF heap[rwBuf].buffer # <<>> THEN rwBuf ELSE keptObj
    /\ UNCHANGED <<queueVars, now, cacheVars, chatVars, appVars, _buffers, llm_max_retries, rwRid,
                   rwAttempt, rwBuf>>

\* asyncio.sleep(retry_delay * (attempt + 1)) is over: the next attempt
rw_wake ==
    /\ rwPc = "sleep"
    /\ rwAttempt' = rwAttempt + 1
    /\ rwPc' = "loop"
    /\ UNCHANGED <<queueVars, now, cacheVars, chatVars, appVars, bufVars, llm_max_retries, rwRid,
                   rwBuf, rwOut, keptObj>>

\* the caller is cancelled during the sleep
rw_sleep_cancelled ==
    /\ rwPc = "sleep"
    /\ rwPc' = "done"
    /\ rwOut' = <<"raise", "CancelledError">>
    /\ UNCHANGED <<queueVars, now, cacheVars, chatVars, appVars, bufVars, llm_max_retries, rwRid,
                   rwAttempt, rwBuf, keptObj>>

RetryInit ==
    /\ queue_init
    /\ now = 1
    /\ cache_init("none", 0)
    /\ buffers_init
    /\ \E n \in 0..LlmMaxRetries : retry_init(n)
    /\ chat_init
    /\ app_init

RetryNext ==
    \/ \E rid \in ResponseIds : rw_call(rid)
    \/ rw_stream_func_returns
    \/ \E e \in Raised : rw_stream_func_raises(e)
    \/ rw_loop_exhausted
    \/ \E chunk \in Chunks : rw_chunk(chunk)
    \/ rw_stream_end
    \/ \E e \in Raised : rw_stream_raises(e)
    \/ rw_wake
    \/ rw_sleep_cancelled

RetrySpec == RetryInit /\ [][RetryNext]_vars

\* ============================================ the streaming chat endpoint
\* app/api/chat.py chat_stream, which awaits ChatAgent.chat_stream, which
\* awaits BaseAgent.process_message_stream.  One request is followed from
\* its arrival to the cleanup of its buffer.

\* an event of the response: the keys of the JSON object the endpoint yields
\* (chunk and error are <<>> when the key is absent)
event(chunk, done, error, partial) ==
    [chunk |-> chunk, done |-> done, error |-> error, partial |-> partial]

\* the text the outer handler of process_message_stream returns as message
ErrorMessage == "error message"

\* what the endpoint puts in the error key when the request is cancelled
CancelMessage == "request cancelled"

\* chat.py 98-100: the content cut in pieces, one chunk event per piece
chunk_events(content) ==
    IF content = <<>> THEN <<>> ELSE <<event(content, FALSE, <<>>, FALSE)>>

\* chat.py 92-106: the events of a response whose agent call returned
returned_events(obj) ==
    IF obj # NoBuffer
    THEN chunk_events(heap[obj].buffer)
             \o <<event(<<>>, TRUE, <<>>, FALSE)>>
    ELSE <<event(<<ErrorMessage>>, TRUE, <<>>, FALSE)>>

\* chat.py 111-115: the event of a cancelled request
cancelled_events(obj) ==
    IF obj # NoBuffer /\ heap[obj].buffer # <<>>
    THEN <<event(heap[obj].buffer, TRUE, <<>>, TRUE)>>
    ELSE <<event(<<>>, TRUE, <<CancelMessage>>, FALSE)>>

\* chat.py 120-124: the event of a request whose agent call raised
exception_events(obj, e) ==
    IF obj # NoBuffer /\ heap[obj].buffer # <<>>
    THEN <<event(heap[obj].buffer, TRUE, <<e>>, TRUE)>>
    ELSE <<event(<<>>, TRUE, <<e>>, FALSE)>>

\* a request arrives: response_id = str(uuid.uuid4())
ch_request(rid) ==
    /\ chPc = "idle"
    /\ get_buffer(rid) = NoBuffer
    /\ chPc' = "setup"
    /\ chRid' = rid
    /\ UNCHANGED <<queueVars, now, cacheVars, appVars, bufVars, retryVars,
                   chBuf, chEvents, chSlept, chOutcome>>

\* ChatAgent.chat_stream raises before it calls the workflow agent
ch_chat_agent_raises ==
    /\ chPc = "setup"
    /\ chPc' = "exception"
    /\ chOutcome' = "exception"
    /\ UNCHANGED <<queueVars, now, cacheVars, appVars, bufVars, retryVars,
                   chRid, chBuf, chEvents, chSlept>>

\* process_message_stream raises before create_buffer: its outer handler
\* finds no buffer and returns a response whose message is the error text
ch_setup_raises ==
    /\ chPc = "setup"
    /\ chPc' = "post"
    /\ chOutcome' = "exception"
    /\ UNCHANGED <<queueVars, now, cacheVars, appVars, bufVars, retryVars,
                   chRid, chBuf, chEvents, chSlept>>

\* buffer = response_handler.create_buffer(response_id, conversation_id)
ch_create_buffer ==
    /\ chPc = "setup"
    /\ Len(heap) < MaxBuffers
    /\ heap' = heap_create(heap)
    /\ _buffers' = buffers_create(_buffers, chRid, Len(heap) + 1)
    /\ chBuf' = Len(heap) + 1
    /\ chPc' = "astream"
    /\ UNCHANGED <<queueVars, now, cacheVars, appVars, retryVars,
                   chRid, chEvents, chSlept, chOutcome>>

\* the executor's stream yields a chunk with text: buffer.append(chunk_text)
ch_chunk(chunk) ==
    /\ chPc = "astream"
    /\ Len(heap[chBuf].buffer) < MaxChunks
    /\ heap' = [heap EXCEPT ![chBuf] = append(@, chunk)]
    /\ UNCHANGED <<queueVars, now, cacheVars, appVars, retryVars, _buffers, chatVars>>

\* the stream ends: buffer.mark_complete()
ch_astream_end ==
    /\ chPc = "astream"
    /\ heap' = [heap EXCEPT ![chBuf] = mark_complete(@)]
    /\ chPc' = "post"
    /\ chOutcome' = "success"
    /\ UNCHANGED <<queueVars, now, cacheVars, appVars, retryVars, _buffers,
                   chRid, chBuf, chEvents, chSlept>>

\* the stream raises e.  "except Exception as stream_error" marks the buffer
\* and goes on to return the response; a CancelledError passes this clause
\* and the outer "except Exception", then ChatAgent.chat_stream, and reaches
\* the endpoint.
ch_astream_raises(e) ==
    /\ chPc = "astream"
    /\ IF caught_by_except_Exception(e)
       THEN /\ heap' = [heap EXCEPT ![chBuf] = mark_error(@, "stream failed")]
            /\ chPc' = "post"
            /\ chOutcome' = "stream_error"
       ELSE /\ heap' = heap
            /\ chPc' = "cancelled"
            /\ chOutcome' = "cancelled"
    /\ UNCHANGED <<queueVars, now, cacheVars, appVars, retryVars, _buffers,
                   chRid, chBuf, chEvents, chSlept>>

\* ChatAgent.chat_stream raises after the workflow agent returned
ch_post_raises ==
    /\ chPc = "post"
    /\ chPc' = "exception"
    /\ chOutcome' = "exception"
    /\ UNCHANGED <<queueVars, now, cacheVars, appVars, bufVars, retryVars,
                   chRid, chBuf, chEvents, chSlept>>

\* the agent call returned: the endpoint sends the response
ch_respond ==
    /\ chPc = "post"
    /\ chEvents' = returned_events(get_buffer(chRid))
    /\ chPc' = "sleep"
    /\ UNCHANGED <<queueVars, now, cacheVars, appVars, bufVars, retryVars,
                   chRid, chBuf, chSlept, chOutcome>>

\* except asyncio.CancelledError
ch_respond_cancelled ==
    /\ chPc = "cancelled"
    /\ chEvents' = cancelled_events(get_buffer(chRid))
    /\ chPc' = "sleep"
    /\ UNCHANGED <<queueVars, now, cacheVars, appVars, bufVars, retryVars,
                   chRid, chBuf, chSlept, chOutcome>>

\* except Exception as e
ch_respond_exception ==
    /\ chPc = "exception"
    /\ chEvents' = exception_events(get_buffer(chRid), "stream failed")
    /\ chPc' = "sleep"
    /\ UNCHANGED <<queueVars, now, cacheVars, appVars, bufVars, retryVars,
                   chRid, chBuf, chSlept, chOutcome>>

\* finally: a second of await asyncio.sleep(5) passes
ch_sleep ==
    /\ chPc = "sleep"
    /\ chSlept < RetentionDelay
    /\ chSlept' = chSlept + 1
    /\ UNCHANGED <<queueVars, now, cacheVars, appVars, bufVars, retryVars,
                   chPc, chRid, chBuf, chEvents, chOutcome>>

\* finally: the sleep is over, response_handler.cleanup_buffer(response_id)
ch_cleanup ==
    /\ chPc = "sleep"
    /\ chSlept = RetentionDelay
    /\ _buffers' = buffers_cleanup(_buffers, chRid)
    /\ chPc' = "done"
    /\ UNCHANGED <<queueVars, now, cacheVars, appVars, retryVars, heap,
                   chRid, chBuf, chEvents, chSlept, chOutcome>>

ChatInit ==
    /\ queue_init
    /\ now = 1
    /\ cache_init("none", 0)
    /\ buffers_init
    /\ retry_init(0)
    /\ chat_init
    /\ app_init

ChatNext ==
    \/ \E rid \in ResponseIds : ch_request(rid)
    \/ ch_chat_agent_raises
    \/ ch_setup_raises
    \/ ch_create_buffer
    \/ \E chunk \in Chunks : ch_chunk(chunk)
    \/ ch_astream_end
    \/ \E e \in Raised : ch_astream_raises(e)
    \/ ch_post_raises
    \/ ch_respond
    \/ ch_respond_cancelled
    \/ ch_respond_exception
    \/ ch_sleep
    \/ ch_cleanup

ChatSpec == ChatInit /\ [][ChatNext]_vars

\* ------------------------------------------------------------ predicates
\* a consumer loop holds the id (popped, iteration not finished)
Held(id) == \E ty \in TaskType : loopId[ty] = id

\* number of occurrences of id in a log
RECURSIVE Count(_, _)
Count(id, log) ==
    IF log = <<>> THEN 0
    ELSE (IF log[1] = id THEN 1 ELSE 0) + Count(id, Tail(log))

Pushes(id) == Count(id, pushLog[_get_queue_name("WORKFLOW_EXECUTE")])
              + Count(id, pushLog[_get_queue_name("CHAT_PROCESS")])

\* ---------------------------------------------------------------- claims

\* C1: once the stored status of a task is CANCELLED it never changes again,
\* whatever the queue client or a worker does afterwards.
C1_CancelledIsTerminal ==
    [][\A id \in TaskIds :
         StoredStatus(id) = "CANCELLED" => StoredStatus(id)' = "CANCELLED"]_vars

\* C2: a task whose stored status was CANCELLED when its id was popped is
\* skipped by the consumer loop: its handler is not invoked.
C2_CancelledIsSkipped ==
    \A ty \in TaskType : loopPc[ty] = "handler" => ~loopCancelled[ty]

\* C3: cancel_task does not return True for a task that a consumer has moved
\* to RUNNING and handed to its handler.
C3_NoCancelOfStarted ==
    [][\A c \in Callers :
         cancelPc[c] = "update" /\ cancelPc'[c] = "idle"
         => ~\E ty \in TaskType : /\ loopId[ty] = cancelTask[c][1].id
                                  /\ loopPc[ty] = "handler"]_vars

\* C4: cancel_task returns True exactly when the stored status is PENDING or
\* QUEUED, and then stores CANCELLED with completed_at; otherwise (unknown
\* id or any other status) it returns False and writes nothing.  The record a
\* successful cancel leaves makes the next cancel return False.
C4_CancelContract ==
    [][/\ \A c \in Callers, id \in TaskIds :
            cancel_task_get(c, id) =>
              /\ (cancelPc'[c] = "update") <=> (StoredStatus(id) \in {"PENDING", "QUEUED"})
              /\ redis_task' = redis_task /\ redis_status' = redis_status
              /\ cancelPc'[c] = "idle" => cancelHist'[id] \in {"none", "true_false"}
       /\ \A c \in Callers, id \in TaskIds :
            (cancel_task_update(c) /\ cancelTask[c][1].id = id) =>
              /\ StoredStatus(id)' = "CANCELLED"
              /\ redis_status'[id] = <<"cancelled">>
              /\ get_task(id)'[1].completed_at # None
              /\ cancelHist'[id] # "none"
              /\ StoredStatus(id)' \notin {"PENDING", "QUEUED"}]_vars

\* C4 witness: a cancel of the task returned True, a later one returned
\* False, and the record is CANCELLED with completed_at set.
C4_Witness ==
    \E id \in TaskIds :
        /\ cancelHist[id] = "true_false"
        /\ StoredStatus(id) = "CANCELLED"
        /\ get_task(id)[1].completed_at # None

\* C6: at-least-once delivery: once a consumer runs for good, every task
\* that was enqueued and not cancelled is eventually passed to its handler,
\* also when the worker was stopped and restarted in between.
C6_AtLeastOnce ==
    (<>[]running) =>
        \A id \in TaskIds :
            [](apiPc[id] = "done"
               => <>(handlerCalls[id] > 0 \/ cancelHist[id] # "none"))

QueuesEmpty == \A q \in QueueNames : redis_list[q] = <<>>

\* C10 as stated: with a worker that keeps running the lists drain for good,
\* and no id is in a list once its task has a terminal status (COMPLETED,
\* FAILED or CANCELLED).
C10_DrainsAndNoTerminalInList ==
    /\ (<>[]running) => <>[]QueuesEmpty
    /\ [](\A id \in TaskIds :
            StoredStatus(id) \in {"COMPLETED", "FAILED", "CANCELLED"} => ~InList(id))

\* C10 amended: with a worker that keeps running the lists drain for good,
\* and no id is in a list once its task is COMPLETED or FAILED; the id of a
\* task cancelled while queued stays in the list until a consumer pops it.
C10_DrainsAndNoFinishedInList ==
    /\ (<>[]running) => <>[]QueuesEmpty
    /\ [](\A id \in TaskIds :
            StoredStatus(id) \in {"COMPLETED", "FAILED"} => ~InList(id))

\* C10 witness: a task went through a retry and finished, a task was
\* cancelled, and every list is empty.
C10_Witness ==
    /\ QueuesEmpty
    /\ \E id \in TaskIds : StoredStatus(id) \in {"COMPLETED", "FAILED"} /\ Pushes(id) > 1
    /\ \E id \in TaskIds : cancelHist[id] # "none"

\* C5: a task created with retry_count 0 whose handler raises every time
\* (and that no cancel_task altered) is handed to the handler at most
\* max_retries + 1 times; it is re-enqueued only after one of the first
\* max_retries failures, it is failed only after failure max_retries + 1, and
\* once FAILED it has had exactly max_retries + 1 attempts and pushes and is
\* neither in a list nor in a consumer's hands.
C5_RetryAttempts ==
    \A id \in TaskIds :
        (redis_task[id] # <<>> /\ cancelHist[id] = "none" /\ ~handlerOk[id]) =>
            LET n == get_task(id)[1].max_retries
            IN /\ handlerCalls[id] <= n + 1
               /\ Pushes(id) <= n + 1
               /\ StoredStatus(id) # "COMPLETED"
               /\ StoredStatus(id) = "FAILED" =>
                    /\ handlerCalls[id] = n + 1
                    /\ Pushes(id) = n + 1
                    /\ ~InList(id)
                    /\ ~Held(id)
               /\ \A ty \in TaskType :
                    loopId[ty] = id =>
                      /\ loopPc[ty] \in {"retry_update", "retry_setex", "retry_lpush"}
                           => handlerCalls[id] <= n
                      /\ loopPc[ty] \in {"complete_get", "complete_update"}
                           => handlerCalls[id] = n + 1 /\ loopError[ty]

\* C5 witness: an uncancelled task whose handler never returned is FAILED
\* after max_retries + 1 attempts, the last max_retries of them retries.
C5_Witness ==
    \E id \in TaskIds :
        /\ cancelHist[id] = "none" /\ ~handlerOk[id]
        /\ StoredStatus(id) = "FAILED"
        /\ get_task(id)[1].max_retries > 0
        /\ handlerCalls[id] = get_task(id)[1].max_retries + 1

\* C7: every list is FIFO: the ids come out of BRPOP in the order of their
\* LPUSH (an enqueue completes with its LPUSH), retries included.
C7_Fifo ==
    \A q \in QueueNames :
        /\ Len(popLog[q]) <= Len(pushLog[q])
        /\ popLog[q] = SubSeq(pushLog[q], 1, Len(popLog[q]))

\* C7 witness: two tasks of one kind and the retry of one of them were
\* popped from the same list.
C7_Witness ==
    \E q \in QueueNames :
        /\ Len(popLog[q]) >= 3
        /\ \E i, j, k \in 1..Len(popLog[q]) :
             i < j /\ j < k /\ popLog[q][i] = popLog[q][k] /\ popLog[q][i] # popLog[q][j]

\* C8: every task stored as COMPLETED or FAILED has completed_at and
\* started_at set, with started_at <= completed_at.
C8_FinishedHasTimes ==
    \A id \in TaskIds :
        StoredStatus(id) \in {"COMPLETED", "FAILED"} =>
            /\ get_task(id)[1].completed_at # None
            /\ get_task(id)[1].started_at # None
            /\ get_task(id)[1].started_at <= get_task(id)[1].completed_at

\* C9: right after enqueue_task has written it, get_task(task.id) returns the
\* caller's task (same id, type, params, metadata, retry counters) with
\* status QUEUED, whatever the status was before; the LPUSH that ends
\* enqueue_task leaves the record alone.
C9_EnqueueThenGet ==
    [][/\ \A id \in TaskIds :
            api_enqueue_setex(id) =>
              /\ get_task(id)' = apiTask'[id]
              /\ \E ty \in TaskType :
                   get_task(id)'[1] = Task(id, ty, "QUEUED", MaxRetries)
       /\ \A ty \in TaskType, id \in TaskIds :
            (retry_enqueue_setex(ty) /\ loopId[ty] = id) =>
              /\ get_task(id)' = loopTask'[ty]
              /\ get_task(id)'[1] = [loopTask[ty][1] EXCEPT !.status = "QUEUED"]
       /\ \A id \in TaskIds : api_enqueue_lpush(id) => redis_task' = redis_task
       /\ \A ty \in TaskType : retry_enqueue_lpush(ty) => redis_task' = redis_task]_vars

\* C9 witness: a task was enqueued by the API and another re-enqueued by a
\* worker, and get_task returns each as enqueued, with status QUEUED.
C9_Witness ==
    \E id, jd \in TaskIds :
        /\ apiPc[id] = "done" /\ get_task(id) = apiTask[id]
        /\ get_task(id)[1].status = "QUEUED"
        /\ InList(jd) /\ get_task(jd) # <<>>
        /\ get_task(jd)[1].retry_count > 0 /\ get_task(jd)[1].status = "QUEUED"

\* C11: a caller of an LRU or LRU+TTL cache never sees more than max_size
\* entries: size() returns at most max_size and keys() lists at most max_size
\* keys, whatever the threads do with get, set, delete, clear and
\* cleanup_expired.
C11_SizeWithinCapacity ==
    [][/\ cacheKind \in {"LRU", "LRUTTL"} =>
            \A t \in Threads : cache_size(t) => (thRet'[t][2] <= max_size)
       /\ cacheKind \in {"LRU", "LRUTTL"} =>
            \A t \in Threads : cache_keys(t) => (Len(thRet'[t][2]) <= max_size)]_vars

\* C11 witness: after a set has evicted an entry, size() returns max_size
\* while the other thread waits for the lock.
C11_Witness ==
    /\ cacheKind \in {"LRU", "LRUTTL"}
    /\ evicted
    /\ \E t \in Threads :
         /\ thPc[t] = "unlock"
         /\ thRet[t][1] = "size"
         /\ thRet[t][2] = max_size
         /\ max_size = MaxSize

\* the clock reading at which the entry was written
set_at(e) == e.expire_time - ttl_or_default(e.ttl)

\* C12: in an LRU (or LRU+TTL) cache that holds exactly max_size keys, a set
\* of a key not held inserts the key and removes exactly one entry, the one
\* whose most recent set or get-hit is the oldest; a set of a held key and a
\* get-hit make the key the most recent one and remove nothing.
C12_LruEviction ==
    [][(cacheKind \in {"LRU", "LRUTTL"} =>
         \A t \in Threads :
            /\ \A k \in Keys, v \in Values, ttl \in TtlArgs :
                 (cache_set(t, k, v, ttl) /\ k \notin KeysOf(_cache)) =>
                     (k \in KeysOf(_cache') /\ thPc'[t] = "evict")
            /\ (cache_set_evict(t) /\ Len(_cache) = max_size + 1) =>
                 (/\ KeysOf(_cache') = KeysOf(_cache) \ {uses[1]}
                  /\ uses[Len(uses)] \in KeysOf(_cache')
                  /\ uses[1] # uses[Len(uses)]
                  /\ Len(_cache') = max_size
                  /\ keys_list(_cache') = uses')
            /\ \A k \in Keys, v \in Values, ttl \in TtlArgs :
                 (cache_set(t, k, v, ttl) /\ k \in KeysOf(_cache)) =>
                     (/\ KeysOf(_cache') = KeysOf(_cache)
                      /\ thPc'[t] = "unlock"
                      /\ uses'[Len(uses')] = k
                      /\ keys_list(_cache') = uses')
            /\ \A k \in Keys :
                 (cache_get(t, k) /\ thRet'[t][2] # None) =>
                     (/\ KeysOf(_cache') = KeysOf(_cache)
                      /\ uses'[Len(uses')] = k
                      /\ keys_list(_cache') = uses'))]_vars

\* C12 witness: a full LRU+TTL cache of two keys, after an earlier eviction,
\* has taken a third key, and the entry about to be evicted was written later
\* than the one that stays: the one that stays was promoted by a get-hit.
C12_Witness ==
    /\ cacheKind = "LRUTTL"
    /\ max_size = 2
    /\ evicted
    /\ \E t \in Threads : thPc[t] = "evict"
    /\ Len(_cache) = 3
    /\ set_at(_cache[1]) > set_at(_cache[2])

\* C13: for every ttl t passed to set(key, value, ttl=t) on a TTL or LRU+TTL
\* cache, a get(key) strictly before time-of-set + t returns the value, and a
\* get(key) after time-of-set + t is a miss that removes the entry.
C13_TtlExpiry ==
    [][(cacheKind \in {"TTL", "LRUTTL"} =>
         \A t \in Threads, k \in Keys :
            (cache_get(t, k) /\ k \in KeysOf(_cache)
                             /\ _cache[IndexOf(_cache, k)].ttl # <<>>) =>
                LET e == _cache[IndexOf(_cache, k)]
                IN /\ now < set_at(e) + e.ttl[1] => thRet'[t] = <<"get", e.value>>
                   /\ now > set_at(e) + e.ttl[1] =>
                        (thRet'[t] = <<"get", None>> /\ k \notin KeysOf(_cache')))]_vars

\* C14: the calls on one cache are serialized by its lock: at most one thread
\* is inside a method body, and each call returns, and leaves the dict
\* (contents and order) as, the calls applied whole one after the other in
\* the order in which their bodies started.
C14_Serialized ==
    /\ Cardinality({t \in Threads : thPc[t] # "idle"}) <= 1
    /\ \A t \in Threads :
         thPc[t] = "unlock" => (thRet[t] = linRet[t] /\ _cache = linCache)
    /\ (\A t \in Threads : thPc[t] = "idle") => _cache = linCache

\* C14 witness: after sets by the threads filled the cache and one of them
\* evicted an entry, a get returns a value under the lock and the dict is the
\* one the calls give when applied whole.
C14_Witness ==
    /\ evicted
    /\ max_size = MaxSize
    /\ Len(_cache) = max_size
    /\ _cache = linCache
    /\ thPc[2] = "unlock"
    /\ thRet[2][1] = "get"
    /\ thRet[2] = <<"get", MaxValue>>
    /\ thPc[1] = "idle"

\* the entry of dict c under key k
entry(c, k) == c[IndexOf(c, k)]

\* a set is being executed in this step and writes the entry e
set_writes(e) ==
    /\ \E t \in Threads : thPc[t] = "locked" /\ thRet'[t] = <<"set", None>>
    /\ \E i \in 1..Len(_cache') : _cache'[i] = e
    /\ e.key \in KeysOf(_cache) => entry(_cache, e.key) # e

\* C40: set(key, value, ttl=0) on a TTL or LRU+TTL cache stores the entry
\* with default_ttl, as set without ttl does: its expiry is the time of the
\* set plus default_ttl, and get returns its value exactly while that time
\* has not come.
C40_ZeroTtlMeansDefault ==
    [][(/\ \A k \in Keys, v \in Values :
             set_writes(new_entry(k, v, <<0>>)) =>
                 /\ new_entry(k, v, <<0>>).expire_time = now + DefaultTtl
                 /\ new_entry(k, v, <<0>>).expire_time = new_entry(k, v, <<>>).expire_time
        /\ \A i \in 1..Len(_cache) :
             _cache[i].ttl = <<0>> =>
                 (get_value(_cache, _cache[i].key) = _cache[i].value
                     <=> now < _cache[i].expire_time))]_vars

\* C40 witness: an entry written with ttl=0 at time 1 is the only entry one
\* clock reading later, and a get has just returned its value.
C40_Witness ==
    /\ cacheKind \in {"TTL", "LRUTTL"}
    /\ now = 2
    /\ Len(_cache) = 1
    /\ _cache[1].ttl = <<0>>
    /\ _cache[1].expire_time = 1 + DefaultTtl
    /\ thRet[1] = <<"get", _cache[1].value>>

\* what a get(k) of an LRU+TTL cache does to an expired entry: a miss, the
\* key is removed, the other entries keep their order and their records
get_expired(t, k) ==
    /\ thRet'[t] = <<"get", None>>
    /\ _cache' = SelectSeq(_cache, LAMBDA e : e.key # k)

\* what a get(k) of an LRU+TTL cache does to a live entry: its value is
\* returned and the entry, unchanged, becomes the last (most recent) one
get_live(t, k) ==
    /\ thRet'[t] = <<"get", entry(_cache, k).value>>
    /\ _cache' = SelectSeq(_cache, LAMBDA e : e.key # k) \o <<entry(_cache, k)>>

\* the key that an overflowing set of the new key n evicts from dict c
next_victim(c, n) == oldest_key(set_put(c, n, MaxValue, <<>>))

\* get(k) is the call of this step, on a key held by an LRU+TTL cache
lru_ttl_get(t, k) ==
    /\ cacheKind = "LRUTTL"
    /\ k \in KeysOf(_cache)
    /\ cache_get(t, k)

\* C34 as stated: a get on an expired key is a miss that removes only that
\* key; a get on a live key returns the value and makes the key the most
\* recent, so that the key is not the victim of the next overflow eviction.
C34_GetNeverNextVictim ==
    [][(\A t \in Threads, k \in Keys :
          lru_ttl_get(t, k) =>
              IF now >= entry(_cache, k).expire_time
              THEN get_expired(t, k)
              ELSE /\ get_live(t, k)
                   /\ \A n \in Keys \ KeysOf(_cache') :
                         over_capacity(set_put(_cache', n, MaxValue, <<>>)) =>
                             next_victim(_cache', n) # k)]_vars

\* C34, amended: as stated, but the key that was read is safe from the
\* next overflow eviction only when the cache holds another entry; the
\* only entry of a full cache is evicted by the next set of a new key.
C34_GetExpiryBeforeRecency ==
    [][(\A t \in Threads, k \in Keys :
          lru_ttl_get(t, k) =>
              IF now >= entry(_cache, k).expire_time
              THEN get_expired(t, k)
              ELSE /\ get_live(t, k)
                   /\ \A n \in Keys \ KeysOf(_cache') :
                         (/\ Len(_cache') > 1
                          /\ over_capacity(set_put(_cache', n, MaxValue, <<>>))) =>
                             next_victim(_cache', n) # k)]_vars

\* C34 witness: a get has just returned the value of the entry that was
\* written first (its expiry, with the same ttl, is the earlier one) and
\* that entry is now the last of a full LRU+TTL cache, behind the entry
\* written after it.
C34_Witness ==
    /\ cacheKind = "LRUTTL"
    /\ max_size = 2
    /\ Len(_cache) = 2
    /\ _cache[1].ttl = <<>> /\ _cache[2].ttl = <<>>
    /\ _cache[2].expire_time < _cache[1].expire_time
    /\ thRet[1] = <<"get", _cache[2].value>>
    /\ now < _cache[2].expire_time

\* C35: get never changes the expiration time of an entry of a TTL or
\* LRU+TTL cache, only set does.  So an entry that was written without ttl,
\* as the cache of conversations is (default_ttl = conversation_ttl), is a
\* miss from default_ttl after its last set on, however recently a get
\* returned it: a get returns a value only before the entry's expiry.
C35_GetKeepsExpiry ==
    [][(/\ \A t \in Threads, k \in Keys :
             cache_get(t, k) =>
                 /\ \A j \in KeysOf(_cache') :
                       /\ j \in KeysOf(_cache)
                       /\ entry(_cache', j).expire_time = entry(_cache, j).expire_time
                 /\ thRet'[t] # <<"get", None>> =>
                       /\ k \in KeysOf(_cache')
                       /\ now < entry(_cache', k).expire_time
        /\ \A j \in KeysOf(_cache) \cap KeysOf(_cache') :
             entry(_cache', j).expire_time # entry(_cache, j).expire_time =>
                 \E t \in Threads : thPc[t] = "locked" /\ thRet'[t] = <<"set", None>>
        /\ \A k \in Keys, v \in Values :
             set_writes(new_entry(k, v, <<>>)) =>
                 new_entry(k, v, <<>>).expire_time = now + DefaultTtl)]_vars

\* C35 witness: an entry written at time 1 was returned by a get at time 2,
\* after the entry now in front of it was written (at time 2), and its
\* expiry is still the one of its creation, 1 + default_ttl.
C35_Witness ==
    /\ cacheKind = "LRUTTL"
    /\ now = 2
    /\ Len(_cache) = 2
    /\ _cache[1].ttl = <<>> /\ _cache[1].expire_time = 2 + DefaultTtl
    /\ _cache[2].ttl = <<>> /\ _cache[2].expire_time = 1 + DefaultTtl
    /\ thRet[1] = <<"get", _cache[2].value>>

\* the entries of dict c that a get would not return any more
Expired(c) == {i \in 1..Len(c) : now >= c[i].expire_time}

\* C39: the overflow eviction of an LRU+TTL cache ignores expiry.  size()
\* counts every entry held, expired or not; the capacity test of set counts
\* them too, and when it finds one entry too many it evicts the least
\* recently used entry (the first of the use history), expired or not,
\* and leaves every other entry, expired ones included.
C39_EvictionIgnoresExpiry ==
    [][(\A t \in Threads :
          /\ cache_size(t) =>
                thRet'[t] = <<"size", Cardinality(Expired(_cache))
                                      + Cardinality((1..Len(_cache)) \ Expired(_cache))>>
          /\ (cacheKind = "LRUTTL" /\ cache_set_evict(t)) =>
                IF Len(_cache) > max_size
                THEN _cache' = SelectSeq(_cache, LAMBDA e : e.key # uses[1])
                ELSE _cache' = _cache)]_vars

\* C39 witness: a set has evicted an entry whose expiry had not come while
\* an expired entry stayed, and size() has just counted an expired entry.
C39_Witness ==
    /\ cacheKind = "LRUTTL"
    /\ evictedFresh
    /\ Expired(_cache) # {}
    /\ thRet[1] = <<"size", Len(_cache)>>
    /\ Len(_cache) = max_size

\* C15: no stream buffer ever has complete = true together with an error,
\* after any sequence of append, mark_complete and mark_error calls.
C15_NeverCompleteAndError ==
    \A obj \in 1..Len(heap) : ~(heap[obj].complete /\ heap[obj].error # <<>>)

\* C32: process_with_retry retries a failing chunk factory up to max_retries
\* times after the first attempt: a call that ended by raising the
\* exception of its last attempt made max_retries retries (rwAttempt counts
\* the sleeps that were followed by a new attempt), and a call never ends
\* without a first attempt.
C32_RetriesAfterFirstAttempt ==
    /\ (rwPc = "done" /\ rwOut = <<"raise", "Exception">>) =>
           rwAttempt = llm_max_retries
    /\ (rwPc = "done" /\ rwOut # <<"raise", "CancelledError">>) =>
           (heap # <<>> \/ rwOut = <<"raise", "Exception">>)

\* C33: create_buffer(response_id) always installs a new, empty buffer
\* under the id (no chunk, not complete, no error); a buffer that was
\* registered under that id is replaced, and the registry names it no more,
\* so its chunks, complete flag and error are not reachable through the
\* registry.  The buffers of the other ids stay.
C33_CreateInstallsEmptyBuffer ==
    [][(Len(heap') = Len(heap) + 1 =>
          \E rid \in ResponseIds :
              /\ _buffers'[rid] = Len(heap')
              /\ heap'[_buffers'[rid]] = StreamResponseBuffer
              /\ \A r \in ResponseIds :
                    /\ _buffers[rid] # NoBuffer => _buffers'[r] # _buffers[rid]
                    /\ r # rid => _buffers'[r] = _buffers[r]
              /\ \A obj \in 1..Len(heap) : heap'[obj] = heap[obj])]_vars

\* C33 witness: a buffer that holds a chunk and an error was replaced by a
\* create_buffer on its id: the registry names the new, empty buffer and no
\* id names the old one.
C33_Witness ==
    /\ Len(heap) = 2
    /\ heap[1].buffer # <<>> /\ heap[1].error # <<>>
    /\ heap[2] = StreamResponseBuffer
    /\ \E rid \in ResponseIds : get_buffer(rid) = 2
    /\ \A rid \in ResponseIds : get_buffer(rid) # 1

\* C16: when an attempt of process_with_retry failed after chunks were
\* appended, the buffer that holds them is still the one registered under
\* the response id while the next attempt runs and when the call ends.
C16_BufferRetained ==
    keptObj # NoBuffer =>
        /\ get_buffer(rwRid) = keptObj
        /\ heap[keptObj].buffer # <<>>

\* C17: when the call has ended without a completed buffer and without being
\* cancelled (every attempt failed) and the registered buffer holds partial
\* content, the call returned that buffer, in error state, and did not raise.
C17_PartialReturned ==
    (/\ rwPc = "done"
     /\ llm_max_retries > 0
     /\ ~(rwOut[1] = "return" /\ heap[rwOut[2]].complete)
     /\ ~(rwOut[1] = "raise" /\ rwOut[2] = "CancelledError")
     /\ get_buffer(rwRid) # NoBuffer
     /\ heap[get_buffer(rwRid)].buffer # <<>>)
    => /\ rwOut[1] = "return"
       /\ rwOut[2] = get_buffer(rwRid)
       /\ heap[rwOut[2]].error # <<>>
       /\ ~heap[rwOut[2]].complete

\* C18: when the caller is cancelled while process_stream consumes chunks,
\* the buffer's error becomes "cancelled", its chunks stay and it stays
\* registered, the CancelledError reaches the caller of process_with_retry,
\* and no further attempt is made (no sleep, no new buffer).
C18_CancelPropagates ==
    [][rw_stream_raises("CancelledError") =>
         (/\ heap'[rwBuf].error = <<"cancelled">>
          /\ heap'[rwBuf].buffer = heap[rwBuf].buffer
          /\ ~heap'[rwBuf].complete
          /\ get_buffer(rwRid)' = rwBuf
          /\ Len(heap') = Len(heap)
          /\ rwPc' = "done"
          /\ rwOut' = <<"raise", "CancelledError">>
          /\ rwAttempt' = rwAttempt)]_vars

\* C18 witness: the call was cancelled in its second attempt after a chunk
\* had arrived; the buffer holds the chunk and the error "cancelled".
C18_Witness ==
    /\ rwPc = "done"
    /\ rwOut = <<"raise", "CancelledError">>
    /\ rwAttempt = 1
    /\ rwBuf # NoBuffer
    /\ heap[rwBuf].error = <<"cancelled">>
    /\ heap[rwBuf].buffer # <<>>
    /\ get_buffer(rwRid) = rwBuf

\* the text of all the chunk events of a response, in order
RECURSIVE delivered(_)
delivered(evs) ==
    IF evs = <<>> THEN <<>> ELSE Head(evs).chunk \o delivered(Tail(evs))

StoredTask(id) == get_task(id)[1]

\* C30: a task is created with retry_count <= max_retries, and in every
\* stored version of the task retry_count <= max_retries; the stored
\* retry_count never decreases, and the update_task of a retry by the worker
\* stores a retry_count that is larger by exactly 1.
C30_RetryCountBounded ==
    [][(\A id \in TaskIds :
          /\ redis_task'[id] # <<>> =>
                Task_from_json(redis_task'[id][1]).retry_count
                    <= Task_from_json(redis_task'[id][1]).max_retries
          /\ (redis_task[id] # <<>> /\ redis_task'[id] # <<>>) =>
                /\ Task_from_json(redis_task'[id][1]).retry_count
                       >= StoredTask(id).retry_count
                /\ (\E ty \in TaskType :
                       loopPc[ty] = "retry_update" /\ loopPc'[ty] = "retry_setex"
                       /\ loopId[ty] = id) =>
                      Task_from_json(redis_task'[id][1]).retry_count
                          = StoredTask(id).retry_count + 1)]_vars

\* the positions of a consumer loop between the pop of an id and the end of
\* its handler
InFlightPcs == {"get", "update", "handler"}

C25_CompleteFailureIsFailure ==
    [][(\A ty \in TaskType, id \in TaskIds :
          (/\ loopPc[ty] = "complete_get" /\ ~loopError[ty] /\ loopId[ty] = id
           /\ handlerOk[id]
           /\ running'
           /\ ~(loopPc'[ty] = "complete_update")
           /\ ~(loopPc'[ty] = "brpop")
           /\ <<loopPc[ty], loopTask[ty], loopError[ty]>>
                  # <<loopPc'[ty], loopTask'[ty], loopError'[ty]>>) =>
              IF loopTask[ty][1].retry_count < loopTask[ty][1].max_retries
              THEN /\ loopPc'[ty] = "retry_update"
                   /\ loopId'[ty] = id
                   /\ loopTask'[ty][1].retry_count = loopTask[ty][1].retry_count + 1
                   /\ loopTask'[ty][1].status = "QUEUED"
              ELSE /\ loopPc'[ty] = "complete_get"
                   /\ loopId'[ty] = id
                   /\ loopError'[ty])]_vars

\* C25 witness: the first handler call of a task returned, its complete_task
\* raised, and after the retry the task is in the hands of its handler for
\* the second time.
C25_Witness ==
    \E ty \in TaskType, id \in TaskIds :
        /\ loopId[ty] = id
        /\ handlerOk[id]
        /\ loopPc[ty] = "handler"
        /\ handlerCalls[id] = 2
        /\ loopTask[ty][1].retry_count = 1

\* C27: an exception raised in an iteration of a consumer loop (by the
\* dequeue, by a complete_task in the except clause, by the update or the
\* enqueue of a retry) ends that iteration only: the loop goes to its
\* one-second sleep and from there back to polling, the other loop is not
\* touched, a loop is alive whenever running is true, and a loop ends only
\* in a step that stops the worker.
C27_LoopSurvives ==
    /\ [](running => \A ty \in TaskType : loopPc[ty] # "dead")
    /\ [][(\A ty \in TaskType :
             /\ (loopPc[ty] # "dead" /\ loopPc'[ty] = "dead") => (running /\ ~running')
             /\ (loopPc[ty] = "sleep" /\ loopPc'[ty] # "sleep") =>
                    loopPc'[ty] \in {"brpop", "dead"}
             /\ (loopPc[ty] # "sleep" /\ loopPc'[ty] = "sleep") =>
                    \A o \in TaskType \ {ty} :
                        /\ loopPc'[o] = loopPc[o]
                        /\ loopTask'[o] = loopTask[o])]_vars

\* C27 witness: one loop is in the sleep that follows an exception while the
\* worker runs and the other loop is in its handler.
C27_Witness ==
    /\ running
    /\ \E ty \in TaskType : loopPc[ty] = "sleep"
    /\ \E ty \in TaskType : loopPc[ty] = "handler"

\* C38 (first part): every id in the list task_queue:<kind> has a stored
\* record task:<id>, and the record is a task of that kind: enqueue_task
\* writes the record and the status key before it pushes the id.
C38_ListedIdsHaveRecords ==
    \A q \in QueueNames : \A i \in 1..Len(redis_list[q]) :
        LET id == redis_list[q][i]
        IN /\ redis_task[id] # <<>>
           /\ redis_status[id] # <<>>
           /\ _get_queue_name(get_task(id)[1].type) = q

\* C38 (second part): an enqueue that fails between the writes and the
\* push leaves a record with status QUEUED whose id is in no list.
C38_FailedPushLeavesRecord ==
    \A id \in TaskIds :
        apiPc[id] = "failed" => StoredStatus(id) = "QUEUED" /\ ~InList(id)

\* C38: both parts
C38_RecordBeforePush == C38_ListedIdsHaveRecords /\ C38_FailedPushLeavesRecord

\* C38 witness: one enqueue failed at its push and left its QUEUED record
\* outside every list, while the id of another enqueue is in a list.
C38_Witness ==
    /\ \E id \in TaskIds :
         apiPc[id] = "failed" /\ StoredStatus(id) = "QUEUED" /\ ~InList(id)
    /\ \E id \in TaskIds : apiPc[id] = "done" /\ InList(id)

\* the consumer loops of a kind that are alive (created and not ended)
Alive(ty) == loopPc[ty] # "dead"

\* C28: through any sequence of start() and stop() calls, a kind never has
\* a second consumer loop: start creates loops only when none is alive;
\* while running is true every kind with a handler has its loop, and
\* self.workers names exactly these kinds; start() on a running worker
\* changes nothing.
C28_OneLoopPerKind ==
    /\ [](running => /\ \A ty \in TaskType : Alive(ty)
                     /\ workers = KindsInOrder)
    /\ [][(/\ (\/ \E ty \in TaskType : ~Alive(ty) /\ Alive(ty)'
               \/ ~running /\ running') =>
                 (/\ \A ty \in TaskType : ~Alive(ty)
                  /\ ~running /\ running'
                  /\ \A ty \in TaskType : loopPc'[ty] = "brpop")
           /\ lifeLast' = "start_noop" /\ lifeLast # "start_noop" =>
                 /\ running
                 /\ UNCHANGED <<queueVars, workers, _connected, lifePc, stopIdx>>)]_vars

\* C28 witness: a worker that was started, stopped while a task was in
\* flight and started again has refused a further start and has one loop per
\* kind, one of them in its handler.
C28_Witness ==
    /\ running
    /\ lifeLast = "start_noop"
    /\ \A ty \in TaskType : Alive(ty)
    /\ \E ty \in TaskType : loopPc[ty] = "handler"
    /\ \E id \in TaskIds : StoredStatus(id) = "RUNNING" /\ ~Held(id)

\* C29: stop() on a running worker first sets running to false, then cancels
\* the consumers, and goes on to the disconnect only when every consumer has
\* ended; when it returns no loop is alive, self.workers is empty and the
\* client is disconnected.  stop() on a worker that is not running changes
\* nothing.
C29_StopOrder ==
    /\ [](lifePc \in {"cancel", "await", "disconnect"} => ~running)
    /\ [](lifePc = "disconnect" =>
              /\ \A ty \in TaskType : ~Alive(ty)
              /\ workers = <<>>
              /\ ~_connected)
    /\ [](lifeLast = "stop" /\ lifePc = "idle" /\ ~running =>
              /\ \A ty \in TaskType : ~Alive(ty)
              /\ workers = <<>>
              /\ ~_connected)
    /\ [][(/\ (_connected /\ ~_connected') => \A ty \in TaskType : ~Alive(ty)
           /\ (\E ty \in TaskType : loopPc[ty] # "cancelled" /\ loopPc'[ty] = "cancelled")
                 => ~running
           /\ (lifeLast' = "stop_noop" /\ lifeLast # "stop_noop") =>
                 /\ ~running
                 /\ UNCHANGED <<queueVars, workers, _connected, lifePc, stopIdx>>)]_vars

\* C29 witness: a stop that found a consumer in its handler has returned.
C29_Witness ==
    /\ lifeLast = "stop"
    /\ lifePc = "idle"
    /\ ~running
    /\ \E id \in TaskIds :
          /\ handlerCalls[id] = 1 /\ ~handlerOk[id]
          /\ StoredStatus(id) = "RUNNING" /\ ~Held(id)

\* ========================================================= the ChatAgent
\* app/agents/chat_agent.py.  A conversation is modelled by the list of its
\* messages, each <<role, content>>; an Optional value by <<>> or <<value>>.

MaxChatCalls == 3
ConvIds == {"c1", "c2"}
UserMessages == {"hello", "run"}
Replies == {"reply", "error text"}

\* conversation_id: Optional[str] = None; chat tests it with "if
\* conversation_id", which None and the empty string both fail
NoConversationId == ""

\* "cache[key] = value" on an LRUTTLCache: the class (utils/cache.py 141-228)
\* defines get, set, delete, clear, cleanup_expired, size and keys and no
\* __setitem__, so the statement raises TypeError
supports_item_assignment == FALSE

\* self._conversations.get(conversation_id): None for an id without an entry
get_conversation(conversation_id) ==
    IF conversation_id \in DOMAIN _conversations
    THEN <<_conversations[conversation_id]>>
    ELSE <<>>

\* does chat take the create_conversation path
chat_creates(conversation_id) ==
    \/ conversation_id = NoConversationId
    \/ get_conversation(conversation_id) = <<>>

\* one call of ChatAgent.chat: conversation_id is the caller's argument,
\* new_id the uuid4 of create_conversation, reply the message of the
\* orchestrator's response
chat(message, conversation_id, new_id, reply) ==
    /\ Len(chatCalls) < MaxChatCalls
    /\ IF chat_creates(conversation_id) /\ ~supports_item_assignment
       THEN \* create_conversation raises at its item assignment
            /\ chatCalls' = Append(chatCalls,
                   [message |-> message, conversation_id |-> conversation_id,
                    raised |-> "TypeError", returned |-> NoConversationId,
                    reply |-> ""])
            /\ UNCHANGED _conversations
       ELSE LET id == IF chat_creates(conversation_id) THEN new_id
                      ELSE conversation_id
                before == IF chat_creates(conversation_id) THEN <<>>
                          ELSE _conversations[id]
            IN /\ _conversations' =
                     [k \in DOMAIN _conversations \cup {id} |->
                        IF k = id
                        THEN before \o <<<<"user", message>>, <<"assistant", reply>>>>
                        ELSE _conversations[k]]
               /\ chatCalls' = Append(chatCalls,
                     [message |-> message, conversation_id |-> conversation_id,
                      raised |-> "", returned |-> id, reply |-> reply])
    /\ UNCHANGED except_convVars

ConvNext ==
    \E message \in UserMessages, conversation_id \in ConvIds \cup {NoConversationId},
       new_id \in ConvIds, reply \in Replies :
        /\ new_id \notin DOMAIN _conversations
        /\ chat(message, conversation_id, new_id, reply)

ConvSpec == Init /\ [][ConvNext]_vars

\* C21: after a chat call has ended, it has returned the id of a cached
\* conversation whose last two messages are the user message of the call
\* and the assistant reply.
C21_ChatCachesConversation ==
    chatCalls # <<>> =>
        LET call == chatCalls[Len(chatCalls)]
            found == get_conversation(call.returned)
        IN /\ call.raised = ""
           /\ call.returned # NoConversationId
           /\ found # <<>>
           /\ Len(found[1]) >= 2
           /\ found[1][Len(found[1]) - 1] = <<"user", call.message>>
           /\ found[1][Len(found[1])] = <<"assistant", call.reply>>

\* the ids of the cached conversations that hold message m of role r
HoldersOf(r, m) ==
    {id \in DOMAIN _conversations :
        \E i \in 1..Len(_conversations[id]) : _conversations[id][i] = <<r, m>>}

MaxRuns == 3
MaxTimestamp == 2
WorkflowIds == {"wf1", "wf2"}
Outcomes == {"result", "TimeoutError", "Exception"}

\* f"workflow_{workflow_id}_{datetime.now().timestamp()}"
make_task_id(workflow_id, ts) == <<"workflow", workflow_id, ts>>

\* "del d[key]" guarded by "if key in d"
without(d, key) == [k \in DOMAIN d \ {key} |-> d[k]]

\* "d[key] = value"
with(d, key, value) == [k \in DOMAIN d \cup {key} |-> IF k = key THEN value ELSE d[k]]

\* task.done()
done(run) == runs[run].state # "running"

\* the wall clock moves on between two readings (it need not)
clock_advance ==
    /\ timestamp < MaxTimestamp
    /\ timestamp' = timestamp + 1
    /\ UNCHANGED <<_active_tasks, _task_metadata, runs>>
    /\ UNCHANGED except_trackVars

\* _execute_workflow_tool, the branch of the running event loop: the task is
\* created, stored under its task_id in both maps and given its done callback
execute_workflow_tool(workflow_id) ==
    /\ Len(runs) < MaxRuns
    /\ LET task_id == make_task_id(workflow_id, timestamp)
           run == Len(runs) + 1
       IN /\ runs' = Append(runs, [task_id |-> task_id, state |-> "running",
                                   outcome |-> "none"])
          /\ _active_tasks' = with(_active_tasks, task_id, run)
          /\ _task_metadata' = with(_task_metadata, task_id, workflow_id)
    /\ UNCHANGED timestamp
    /\ UNCHANGED except_trackVars

\* _execute_workflow_with_timeout ends: it returns the result, or re-raises
\* the TimeoutError of wait_for or the exception of the engine; the loop
\* schedules the task's done callback
run_finishes(run, outcome) ==
    /\ run \in 1..Len(runs)
    /\ runs[run].state = "running"
    /\ runs' = [runs EXCEPT ![run] = [@ EXCEPT !.state = "done", !.outcome = outcome]]
    /\ UNCHANGED <<_active_tasks, _task_metadata, timestamp>>
    /\ UNCHANGED except_trackVars

\* _cleanup_task(task_id)
cleanup_task(task_id) ==
    /\ _active_tasks' = without(_active_tasks, task_id)
    /\ _task_metadata' = without(_task_metadata, task_id)

\* the done callback of a finished task: lambda t: self._cleanup_task(task_id)
done_callback(run) ==
    /\ run \in 1..Len(runs)
    /\ runs[run].state = "done"
    /\ runs' = [runs EXCEPT ![run] = [@ EXCEPT !.state = "cleaned"]]
    /\ cleanup_task(runs[run].task_id)
    /\ UNCHANGED timestamp
    /\ UNCHANGED except_trackVars

\* cleanup_tasks(): every stored task that is done is cleaned
cleanup_tasks ==
    /\ \E task_id \in DOMAIN _active_tasks : done(_active_tasks[task_id])
    /\ LET completed_tasks == {task_id \in DOMAIN _active_tasks :
                                   done(_active_tasks[task_id])}
       IN /\ _active_tasks' = [k \in DOMAIN _active_tasks \ completed_tasks |->
                                 _active_tasks[k]]
          /\ _task_metadata' = [k \in DOMAIN _task_metadata \ completed_tasks |->
                                  _task_metadata[k]]
    /\ UNCHANGED <<runs, timestamp>>
    /\ UNCHANGED except_trackVars

get_active_tasks_count == Cardinality(DOMAIN _active_tasks)

TrackNext ==
    \/ clock_advance
    \/ \E workflow_id \in WorkflowIds : execute_workflow_tool(workflow_id)
    \/ \E run \in 1..MaxRuns, outcome \in Outcomes : run_finishes(run, outcome)
    \/ \E run \in 1..MaxRuns : done_callback(run)
    \/ cleanup_tasks

TrackSpec == Init /\ [][TrackNext]_vars

\* C22: a fire-and-track run that has not finished has an entry under its
\* task id in the tracked-tasks map and in the metadata map; a run whose done
\* callback has run has left no entry of its own; with no run in flight the
\* active-task count is 0.
C22_TrackedUntilFinished ==
    /\ \A run \in 1..Len(runs) :
          runs[run].state = "running" =>
              /\ runs[run].task_id \in DOMAIN _active_tasks
              /\ runs[run].task_id \in DOMAIN _task_metadata
    /\ (\A run \in 1..Len(runs) : runs[run].state = "cleaned") =>
              get_active_tasks_count = 0

\* the task ids of the runs created so far are pairwise different
DistinctTaskIds ==
    \A r1, r2 \in 1..Len(runs) : r1 # r2 => runs[r1].task_id # runs[r2].task_id

\* ================================================== workflow registration
\* app/models/workflow.py and the registration of app/workflows/engine.py.
\* A workflow is [nodes |-> the kinds of its nodes in list order, edges |-> a
\* set of <<source, target>>]; the id of a node is its position in the list.

MaxNodes == 3
MaxRegisters == 2
NodeKinds == {"START", "TASK", "END"}
EdgeChoices == {<<1, 2>>, <<1, 3>>, <<2, 1>>}

Workflows ==
    UNION {[nodes : [1..n -> NodeKinds], edges : SUBSET EdgeChoices] : n \in 1..MaxNodes}

\* a get_start_node that takes the first node of the list
first_node(workflow) ==
    IF Len(workflow.nodes) > 0 THEN <<1>> ELSE <<>>

\* Workflow.get_start_node: the first node of kind START, or None
get_start_node(workflow) ==
    IF \E i \in 1..Len(workflow.nodes) : workflow.nodes[i] = "START"
    THEN <<CHOOSE i \in 1..Len(workflow.nodes) :
              /\ workflow.nodes[i] = "START"
              /\ \A j \in 1..(i - 1) : workflow.nodes[j] # "START">>
    ELSE <<>>

\* Workflow.get_next_nodes: the nodes that are targets of an edge from node_id
get_next_nodes(workflow, node_id) ==
    {i \in 1..Len(workflow.nodes) : <<node_id, i>> \in workflow.edges}

StartNodes(workflow) == {i \in 1..Len(workflow.nodes) : workflow.nodes[i] = "START"}

RECURSIVE reach(_, _, _)
\* the nodes reached from the set seen along directed edges, in at most k rounds
reach(workflow, seen, k) ==
    IF k = 0 THEN seen
    ELSE reach(workflow,
               seen \cup UNION {get_next_nodes(workflow, i) : i \in seen}, k - 1)

ReachableFromStart(workflow) ==
    reach(workflow, StartNodes(workflow), Len(workflow.nodes))

\* validation at registration (spec, data model invariants): exactly one
\* START, an END reachable from it, every edge between existing nodes
validate(workflow) ==
    /\ Cardinality(StartNodes(workflow)) = 1
    /\ \E i \in ReachableFromStart(workflow) : workflow.nodes[i] = "END"
    /\ \A e \in workflow.edges : e[1] \in 1..Len(workflow.nodes)
                                 /\ e[2] \in 1..Len(workflow.nodes)

\* register_workflow(workflow) called by POST /api/workflows or by upload: an
\* invalid workflow is rejected; a valid one is stored under its id, and for
\* an id that is registered already the call either overwrites or rejects
register_workflow(id, workflow, overwrite) ==
    /\ registered < MaxRegisters
    /\ registered' = registered + 1
    /\ lastWorkflow' = <<workflow>>
    /\ IF validate(workflow) /\ (id \notin DOMAIN _workflows \/ overwrite)
       THEN /\ _workflows' = with(_workflows, id, workflow)
            /\ lastResult' = "registered"
       ELSE /\ UNCHANGED _workflows
            /\ lastResult' = IF validate(workflow) THEN "duplicate" ELSE "rejected"
    /\ UNCHANGED except_regVars

RegNext ==
    \E id \in WorkflowIds, workflow \in Workflows, overwrite \in BOOLEAN :
        register_workflow(id, workflow, overwrite)

RegSpec == Init /\ [][RegNext]_vars

\* what C23 asks of a workflow
OneStartAndReachableEnd(workflow) ==
    /\ Cardinality(StartNodes(workflow)) = 1
    /\ get_start_node(workflow) # <<>>
    /\ get_start_node(workflow)[1] \in StartNodes(workflow)
    /\ \E i \in reach(workflow, {get_start_node(workflow)[1]}, Len(workflow.nodes)) :
          workflow.nodes[i] = "END"

\* C23: every registered workflow has exactly one START node, get_start_node
\* returns it, and an END node is reachable from it along the edges; a
\* workflow that violates this was rejected and left the registry as it was.
C23_RegisteredWorkflowsValid ==
    /\ \A id \in DOMAIN _workflows : OneStartAndReachableEnd(_workflows[id])
    /\ lastWorkflow # <<>> /\ ~OneStartAndReachableEnd(lastWorkflow[1]) =>
          /\ lastResult = "rejected"
          /\ \A id \in DOMAIN _workflows : _workflows[id] # lastWorkflow[1]

\* C23 witness: a workflow whose START is not its first node and whose END
\* is reached through the TASK node is registered, and a workflow with two
\* START nodes has just been rejected.
C23_Witness ==
    /\ \E id \in DOMAIN _workflows :
          /\ _workflows[id].nodes = <<"TASK", "START", "END">>
          /\ _workflows[id].edges = {<<2, 1>>, <<1, 3>>}
    /\ lastWorkflow # <<>>
    /\ Cardinality(StartNodes(lastWorkflow[1])) = 2
    /\ lastResult = "rejected"

\* ==================================================== workflow execution
\* app/workflows/engine.py, execute_workflow, as TaskWorker._handle_workflow_task
\* calls it for every WORKFLOW_EXECUTE task, a retried one included.  The
\* executed workflow is START -> LOOP -> END with a TASK as the loop body,
\* which has the back-edge to the LOOP node.

MaxExecutions == 2
MaxItems == 2
NodeStatus == {"PENDING", "RUNNING", "COMPLETED", "FAILED", "SKIPPED"}
Terminal == {"COMPLETED", "FAILED", "SKIPPED"}

LoopWorkflow ==
    [nodes |-> <<"START", "LOOP", "TASK", "END">>,
     edges |-> {<<1, 2>>, <<2, 3>>, <<3, 2>>, <<2, 4>>}]

EngineNodes == 1..Len(LoopWorkflow.nodes)

kind(n) == LoopWorkflow.nodes[n]

\* the LOOP node's outgoing edges: the body is entered along the edge whose
\* target has the back-edge, the other edge is the forward edge
body_entry(loop) ==
    CHOOSE n \in get_next_nodes(LoopWorkflow, loop) :
        loop \in get_next_nodes(LoopWorkflow, n)

forward_target(loop) ==
    CHOOSE n \in get_next_nodes(LoopWorkflow, loop) :
        loop \notin get_next_nodes(LoopWorkflow, n)

\* the target of the unique outgoing edge of a node
next_node(n) == CHOOSE t \in get_next_nodes(LoopWorkflow, n) : TRUE

\* execute_workflow(id, variables), steps 1-4: the workflow is loaded, its
\* status becomes RUNNING and the traversal starts at the START node; the
\* state of the nodes is what the workflow object holds
execute_workflow ==
    /\ enginePc = "idle"
    /\ executions < MaxExecutions
    /\ executions' = executions + 1
    /\ wfStatus' = "RUNNING"
    /\ current_node_id' = get_start_node(LoopWorkflow)[1]
    /\ enginePc' = "dispatch"
    /\ UNCHANGED <<nodeStatus, itemsLeft, entered>>
    /\ UNCHANGED except_engineVars

\* step 5: the current node is dispatched and its status becomes RUNNING; a
\* LOOP node evaluates loop_items to a sequence of items elements
dispatch_node(items) ==
    /\ enginePc = "dispatch"
    /\ nodeStatus' = [nodeStatus EXCEPT ![current_node_id] = "RUNNING"]
    /\ entered' = [entered EXCEPT ![current_node_id] = @ + 1]
    /\ itemsLeft' = IF kind(current_node_id) = "LOOP" THEN items ELSE itemsLeft
    /\ enginePc' = "run"
    /\ UNCHANGED <<wfStatus, current_node_id, executions>>
    /\ UNCHANGED except_engineVars

\* START: COMPLETED at once, the unique outgoing edge is followed
run_start ==
    /\ enginePc = "run"
    /\ kind(current_node_id) = "START"
    /\ nodeStatus' = [nodeStatus EXCEPT ![current_node_id] = "COMPLETED"]
    /\ current_node_id' = next_node(current_node_id)
    /\ enginePc' = "dispatch"
    /\ UNCHANGED <<wfStatus, itemsLeft, executions, entered>>
    /\ UNCHANGED except_engineVars

\* LOOP: while an element is left it is bound to loop_var and the body is
\* executed; after the last one the node is COMPLETED and the forward edge
\* is followed
run_loop ==
    /\ enginePc = "run"
    /\ kind(current_node_id) = "LOOP"
    /\ IF itemsLeft > 0
       THEN /\ itemsLeft' = itemsLeft - 1
            /\ current_node_id' = body_entry(current_node_id)
            /\ UNCHANGED nodeStatus
       ELSE /\ nodeStatus' = [nodeStatus EXCEPT ![current_node_id] = "COMPLETED"]
            /\ current_node_id' = forward_target(current_node_id)
            /\ UNCHANGED itemsLeft
    /\ enginePc' = "dispatch"
    /\ UNCHANGED <<wfStatus, executions, entered>>
    /\ UNCHANGED except_engineVars

\* TASK (here the loop body): the tool returns and the node is COMPLETED, the
\* edge back to the LOOP node is followed; or the tool fails, the node is
\* FAILED, the failure fails the loop and the workflow
run_task(ok) ==
    /\ enginePc = "run"
    /\ kind(current_node_id) = "TASK"
    /\ IF ok
       THEN /\ nodeStatus' = [nodeStatus EXCEPT ![current_node_id] = "COMPLETED"]
            /\ current_node_id' = next_node(current_node_id)
            /\ enginePc' = "run"
            /\ UNCHANGED wfStatus
       ELSE /\ nodeStatus' = [nodeStatus EXCEPT ![current_node_id] = "FAILED",
                                                ![next_node(current_node_id)] = "FAILED"]
            /\ wfStatus' = "FAILED"
            /\ enginePc' = "idle"
            /\ UNCHANGED current_node_id
    /\ UNCHANGED <<itemsLeft, executions, entered>>
    /\ UNCHANGED except_engineVars

\* END: COMPLETED, and the workflow is COMPLETED
run_end ==
    /\ enginePc = "run"
    /\ kind(current_node_id) = "END"
    /\ nodeStatus' = [nodeStatus EXCEPT ![current_node_id] = "COMPLETED"]
    /\ wfStatus' = "COMPLETED"
    /\ enginePc' = "idle"
    /\ UNCHANGED <<current_node_id, itemsLeft, executions, entered>>
    /\ UNCHANGED except_engineVars

EngineNext ==
    \/ execute_workflow
    \/ \E items \in 0..MaxItems : dispatch_node(items)
    \/ run_start
    \/ run_loop
    \/ \E ok \in BOOLEAN : run_task(ok)
    \/ run_end

EngineSpec == Init /\ [][EngineNext]_vars

\* C24: over all executions the status of a node changes only from PENDING to
\* RUNNING (or straight to a terminal status) and from RUNNING to COMPLETED,
\* FAILED or SKIPPED: no node leaves a terminal status, and no node becomes
\* RUNNING a second time.
C24_NodeStatusForwardOnly ==
    /\ [](\A n \in EngineNodes : entered[n] <= 1)
    /\ [][(\A n \in EngineNodes :
              /\ nodeStatus[n] \in Terminal => nodeStatus'[n] = nodeStatus[n]
              /\ nodeStatus[n] = "RUNNING" => nodeStatus'[n] \in Terminal \cup {"RUNNING"}
              /\ nodeStatus'[n] = "RUNNING" => nodeStatus[n] \in {"PENDING", "RUNNING"})]_vars

\* ================================================ the trace id of a task
\* app/middleware/logging.py, app/api/workflow.py, app/queue/worker.py.
\* trace_id_var is a ContextVar: every consumer loop is an asyncio task with
\* a context of its own, so a set_trace_id in one loop is not seen in another.

MaxRequests == 3
TraceHeaders == {"", "t1", "t2"}
Uuids == <<"u1", "u2", "u3">>

\* LoggingMiddleware.dispatch: request.headers.get("X-Trace-Id") or uuid4()
request_trace_id(header, uuid) == IF header # "" THEN header ELSE uuid

\* a consumer loop that leaves the ambient trace id as it finds it
keep_trace_id(ambient, task) == ambient

\* _worker_loop: if task.metadata.get("trace_id"): set_trace_id(...)
restore_trace_id(ambient, task) ==
    IF task.trace_id # "" THEN task.trace_id ELSE ambient

\* POST execute with async_execute: the middleware sets the trace id of the
\* request, the endpoint copies get_trace_id() into the metadata of a new
\* task and enqueues it (LPUSH: at the head)
trace_request(header, ty) ==
    /\ requests < MaxRequests
    /\ requests' = requests + 1
    /\ traceQueue' = [traceQueue EXCEPT ![ty] =
           <<[id |-> requests + 1,
              trace_id |-> request_trace_id(header, Uuids[requests + 1]),
              retry_count |-> 0, cancelled |-> FALSE]>> \o @]
    /\ UNCHANGED <<trace_id_var, tracePc, traceTask, traceHandled>>
    /\ UNCHANGED except_traceVars

\* cancel_task on a queued task: its record becomes CANCELLED, its id stays
\* in the list
trace_cancel(ty, i) ==
    /\ i \in 1..Len(traceQueue[ty])
    /\ ~traceQueue[ty][i].cancelled
    /\ traceQueue' = [traceQueue EXCEPT ![ty][i].cancelled = TRUE]
    /\ UNCHANGED <<trace_id_var, tracePc, traceTask, traceHandled, requests>>
    /\ UNCHANGED except_traceVars

\* _worker_loop: dequeue_task returns a task (BRPOP: from the tail), the
\* trace id of its metadata is installed, a cancelled task is skipped and
\* any other is handed to its handler
trace_dequeue(ty) ==
    /\ tracePc[ty] = "idle"
    /\ traceQueue[ty] # <<>>
    /\ LET task == traceQueue[ty][Len(traceQueue[ty])]
       IN /\ trace_id_var' = [trace_id_var EXCEPT ![ty] = restore_trace_id(@, task)]
          /\ traceQueue' = [traceQueue EXCEPT ![ty] = SubSeq(@, 1, Len(@) - 1)]
          /\ IF task.cancelled
             THEN UNCHANGED <<tracePc, traceTask>>
             ELSE /\ tracePc' = [tracePc EXCEPT ![ty] = "handler"]
                  /\ traceTask' = [traceTask EXCEPT ![ty] = <<task>>]
    /\ UNCHANGED <<traceHandled, requests>>
    /\ UNCHANGED except_traceVars

\* _process_task: the handler returns, or raises; a task that failed and has
\* a retry left is enqueued again with the metadata it came with
trace_handler_ends(ty, ok) ==
    /\ tracePc[ty] = "handler"
    /\ LET task == traceTask[ty][1]
       IN /\ traceQueue' =
                IF ~ok /\ task.retry_count < MaxRetries
                THEN [traceQueue EXCEPT ![ty] =
                         <<[task EXCEPT !.retry_count = @ + 1]>> \o @]
                ELSE traceQueue
          /\ traceHandled' = [traceHandled EXCEPT ![ty] = Append(@, task.trace_id)]
    /\ tracePc' = [tracePc EXCEPT ![ty] = "idle"]
    /\ traceTask' = [traceTask EXCEPT ![ty] = <<>>]
    /\ UNCHANGED <<trace_id_var, requests>>
    /\ UNCHANGED except_traceVars

TraceNext ==
    \/ \E header \in TraceHeaders, ty \in TaskType : trace_request(header, ty)
    \/ \E ty \in TaskType, i \in 1..MaxRequests : trace_cancel(ty, i)
    \/ \E ty \in TaskType : trace_dequeue(ty)
    \/ \E ty \in TaskType, ok \in BOOLEAN : trace_handler_ends(ty, ok)

TraceSpec == Init /\ [][TraceNext]_vars

====
